---- MODULE Spec2Model ----
(***************************************************************************)
(* Model of breakroom/saml-test-idp: the pending-request store             *)
(* (SessionProvider), the HTTP handlers handleSSO / handleLogin /          *)
(* processLogin, the service-provider registry and the NameID mapping.     *)
(* Every goroutine serving a request (or calling the store API directly,   *)
(* as the package's tests do) is a worker with a program counter.          *)
(***************************************************************************)
EXTENDS Integers, Sequences, FiniteSets, TLC

(***************************************************************************)
(* Bounds of the model.                                                    *)
(***************************************************************************)
NumWorkers == 2
MaxCalls == 3
MaxTime == 20
MaxSPs == 3
MaxListings == 2
MaxUsers == 3
MaxItems == 3
MaxHexLen == 3

Workers == 1..NumWorkers

\* Granularity of the clock: time is counted in minutes and advances in
\* jumps of TickStep; with the ten-minute lifetime the instants "before",
\* "exactly at" and "after" an expiry are all reached.
TickStep == 10

(***************************************************************************)
(* 64-bit unsigned arithmetic on eight 8-bit limbs, least significant      *)
(* first (randState is a uint64).                                          *)
(***************************************************************************)
Limb == 256

\* 6364136223846793005 = 0x5851F42D4C957F2D
LCGMultiplier == <<45, 127, 149, 76, 45, 244, 81, 88>>

RECURSIVE ColumnSum(_, _, _, _)
\* sum of a[i] * b[k + 1 - i] for i in 1..j : column k of the product
ColumnSum(a, b, k, j) ==
    IF j = 0 THEN 0 ELSE a[j] * b[k + 1 - j] + ColumnSum(a, b, k, j - 1)

\* (a * b + c) mod 2^64, limb by limb with the carries
MulAdd(a, b, c) ==
    LET carry[k \in 0..8] ==
            IF k = 0 THEN c ELSE (ColumnSum(a, b, k, k) + carry[k - 1]) \div Limb
    IN  [k \in 1..8 |-> (ColumnSum(a, b, k, k) + carry[k - 1]) % Limb]

\* randState*6364136223846793005 + 1 (mod 2^64)
LCGNext(s) == MulAdd(s, LCGMultiplier, 1)

\* uint64(time.Now().UnixNano()) at program start
Seed == <<0, 0, 42, 54, 254, 156, 151, 23>>

\* the largest number of pseudoRand calls in a run: at most 32 for each
\* request
MaxRandCalls == 32 * MaxCalls

RECURSIVE Block(_, _)
\* s, LCGNext(s), ... : n successive generator states
Block(s, n) == IF n = 0 THEN << >> ELSE <<s>> \o Block(LCGNext(s), n - 1)

RECURSIVE Orbit(_, _)
\* the 32 * b + 1 successive generator states from s on
Orbit(s, b) ==
    IF b = 0 THEN <<s>>
    ELSE LET blk == Block(s, 32) IN blk \o Orbit(LCGNext(blk[32]), b - 1)

\* the generator states a run can go through, computed once
RandStates == Orbit(Seed, MaxCalls)

\* LCGNext(s), looked up in RandStates where s is one of its states
Advance(s) ==
    IF \E k \in 1..MaxRandCalls : RandStates[k] = s
    THEN RandStates[(CHOOSE k \in 1..MaxRandCalls : RandStates[k] = s) + 1]
    ELSE LCGNext(s)

\* variant: the shift is that of a signed 64-bit value, int(int64(s) >> 33)
ShiftRight33_Signed(s) ==
    (s[5] \div 2) + s[6] * 128 + s[7] * 32768
        + (IF s[8] >= 128 THEN s[8] - 256 ELSE s[8]) * 8388608

\* int(randState >> 33): bits 33..63, a 31-bit non-negative value
ShiftRight33(s) ==
    (s[5] \div 2) + s[6] * 128 + s[7] * 32768 + s[8] * 8388608

hexChars ==
    <<"0", "1", "2", "3", "4", "5", "6", "7",
      "8", "9", "a", "b", "c", "d", "e", "f">>

\* pseudoRand applied to state s: the new state and the value returned
pseudoRand(s) ==
    LET s2 == Advance(s) IN [state |-> s2, value |-> ShiftRight33(s2)]

RECURSIVE randomHexFrom(_, _, _)
\* the loop of randomHex with n bytes still to fill, b the bytes filled so
\* far and s the generator state (r is bound by a quantifier so that each
\* call of pseudoRand is evaluated once)
randomHexFrom(s, n, b) ==
    IF n = 0 THEN [state |-> s, str |-> b]
    ELSE CHOOSE res \in { randomHexFrom(r.state, n - 1,
                                         b \o hexChars[(r.value % 16) + 1]) :
                            r \in {pseudoRand(s)} } : TRUE

\* randomHex(n) started from generator state s: the string and the state
\* left behind
randomHex(s, n) == randomHexFrom(s, n, "")

(***************************************************************************)
(* Configuration (config.ServiceProvider / config.User) and the registry. *)
(***************************************************************************)
\* values of User.Attributes (interface{} as the YAML decoder produces
\* them): a string with its text and its whitespace-separated fields, a
\* bool, an int, or a list of such scalars
StringValue(text, fields) == [kind |-> "string", text |-> text, fields |-> fields]
BoolValue(b) == [kind |-> "bool", b |-> b]
IntValue(n) == [kind |-> "int", n |-> n]
ListValue(items) == [kind |-> "list", items |-> items]

\* a nil or empty map[string]interface{}
NoAttributes == [n \in {} |-> BoolValue(FALSE)]

ServiceProviders ==
    << [EntityID |-> "sp-1", ACSURL |-> "https://sp-1/acs", MetadataFile |-> "",
        NameIDFormat |-> "persistent",
        Users |-> << [Name |-> "Ann", NameID |-> "ann@example.com",
                      Attributes |->
                          [role |-> StringValue("admin", <<"admin">>),
                           groups |-> ListValue(<<StringValue("a", <<"a">>),
                                                  StringValue("b", <<"b">>)>>)]],
                     [Name |-> "Bob", NameID |-> "bob@example.com",
                      Attributes |-> NoAttributes] >>],
       [EntityID |-> "sp-2", ACSURL |-> "https://sp-2/acs", MetadataFile |-> "",
        NameIDFormat |-> "bogus",
        Users |-> << [Name |-> "Cy", NameID |-> "cy@example.org",
                      Attributes |-> [active |-> BoolValue(TRUE)]],
                     [Name |-> "Cy", NameID |-> "cy2@example.org",
                      Attributes |-> NoAttributes],
                     [Name |-> "", NameID |-> "anon@example.org",
                      Attributes |-> NoAttributes] >>] >>

\* a *config.ServiceProvider is the index of the element of the slice it
\* points at; 0 is the nil pointer
NilSP == 0

EntityIDs == {"sp-1", "sp-2", "sp-unknown"}

\* the metadata files of the file system, by path: readable and parsable,
\* absent, or not XML (os.ReadFile and xml.Unmarshal in createEntry)
MetadataFiles ==
    [ f \in {"good.xml", "missing.xml", "bad.xml"} |->
        CASE f = "good.xml" ->
                [state |-> "ok", EntityID |-> "sp-from-file",
                 Location |-> "https://sp-from-file/acs"]
          [] f = "missing.xml" ->
                [state |-> "unreadable", EntityID |-> "", Location |-> ""]
          [] f = "bad.xml" ->
                [state |-> "unparsable", EntityID |-> "", Location |-> ""] ]

\* a nil *ServiceProviderEntry
NilEntry == [Metadata |-> [EntityID |-> "", Location |-> ""], Config |-> NilSP]

\* variant: an element with neither acs_url nor metadata_file is accepted
createEntry_AcceptsEmpty(sps, i) ==
    LET sp == sps[i]
    IN  IF sp.MetadataFile # ""
        THEN CASE MetadataFiles[sp.MetadataFile].state = "unreadable" ->
                    [entry |-> NilEntry, err |-> "failed to read metadata file"]
               [] MetadataFiles[sp.MetadataFile].state = "unparsable" ->
                    [entry |-> NilEntry, err |-> "failed to parse metadata"]
               [] OTHER ->
                    [entry |->
                        [Metadata |->
                            [EntityID |-> MetadataFiles[sp.MetadataFile].EntityID,
                             Location |-> MetadataFiles[sp.MetadataFile].Location],
                         Config |-> i],
                     err |-> ""]
        ELSE [entry |-> [Metadata |-> [EntityID |-> sp.EntityID,
                                       Location |-> sp.ACSURL],
                         Config |-> i],
              err |-> ""]

\* createEntry for the element i of the slice sps: the entry or the error
createEntry(sps, i) ==
    LET sp == sps[i]
    IN  IF sp.MetadataFile # ""
        THEN CASE MetadataFiles[sp.MetadataFile].state = "unreadable" ->
                    [entry |-> NilEntry, err |-> "failed to read metadata file"]
               [] MetadataFiles[sp.MetadataFile].state = "unparsable" ->
                    [entry |-> NilEntry, err |-> "failed to parse metadata"]
               [] OTHER ->
                    [entry |->
                        [Metadata |->
                            [EntityID |-> MetadataFiles[sp.MetadataFile].EntityID,
                             Location |-> MetadataFiles[sp.MetadataFile].Location],
                         Config |-> i],
                     err |-> ""]
        ELSE IF sp.ACSURL # ""
        THEN [entry |-> [Metadata |-> [EntityID |-> sp.EntityID,
                                       Location |-> sp.ACSURL],
                         Config |-> i],
              err |-> ""]
        ELSE [entry |-> NilEntry,
              err |-> "SP must have either acs_url or metadata_file"]

\* make(map[string]*ServiceProviderEntry)
NoEntries == [e \in {} |-> NilEntry]

\* s.spProvider before New has run
NoProvider == [state |-> "none", sps |-> NoEntries, err |-> ""]

\* variant: the entry is stored under the EntityID of its metadata
PutEntry_MetadataKey(sps, i, m, entry) ==
    [ e \in (DOMAIN m) \cup {entry.Metadata.EntityID} |->
        IF e = entry.Metadata.EntityID THEN entry ELSE m[e] ]

\* provider.sps[sp.EntityID] = entry (line 38): a key that is already there
\* gets the new entry
PutEntry(sps, i, m, entry) ==
    [ e \in (DOMAIN m) \cup {sps[i].EntityID} |->
        IF e = sps[i].EntityID THEN entry ELSE m[e] ]

RECURSIVE NewFrom(_, _, _)
\* the loop of NewServiceProviderProvider from element i on, m being the
\* map filled so far
NewFrom(sps, i, m) ==
    IF i > Len(sps) THEN [state |-> "ok", sps |-> m, err |-> ""]
    ELSE IF createEntry(sps, i).err # ""
    THEN [state |-> "failed", sps |-> NoEntries,
          err |-> "failed to create SP entry for " \o sps[i].EntityID
                      \o ": " \o createEntry(sps, i).err]
    ELSE NewFrom(sps, i + 1, PutEntry(sps, i, m, createEntry(sps, i).entry))

\* NewServiceProviderProvider(sps): the provider ("ok", with its map) or
\* the error ("failed", no provider)
NewServiceProviderProvider(sps) == NewFrom(sps, 1, NoEntries)

\* the registry of the configuration ServiceProviders
RegistryKeys == DOMAIN NewServiceProviderProvider(ServiceProviders).sps

RegistrySps ==
    [ e \in RegistryKeys |->
        NewServiceProviderProvider(ServiceProviders).sps[e].Config ]

\* p.sps[entityID] of GetServiceProviderConfig on provider p: entry.Config,
\* or nil
LookupConfig(p, entityID) ==
    IF entityID \in DOMAIN p.sps THEN p.sps[entityID].Config ELSE NilSP

RECURSIVE FirstUserFrom_Last(_, _, _)
\* variant: the last user with that name
FirstUserFrom_Last(users, name, i) ==
    IF i > Len(users) THEN 0
    ELSE IF FirstUserFrom_Last(users, name, i + 1) # 0
    THEN FirstUserFrom_Last(users, name, i + 1)
    ELSE IF users[i].Name = name THEN i
    ELSE 0

RECURSIVE FirstUserFrom(_, _, _)
\* the loop of GetUserByName over sp.Users from index i on
FirstUserFrom(users, name, i) ==
    IF i > Len(users) THEN 0
    ELSE IF users[i].Name = name THEN i
    ELSE FirstUserFrom(users, name, i + 1)

\* variant: an unknown name selects the first user
GetUserByName_First(sp, name) ==
    IF FirstUserFrom(ServiceProviders[sp].Users, name, 1) = 0 THEN 1
    ELSE FirstUserFrom(ServiceProviders[sp].Users, name, 1)

\* variant: the name is looked up among the users of every service provider
GetUserByName_AnyProvider(sp, name) ==
    IF FirstUserFrom(ServiceProviders[sp].Users, name, 1) # 0
    THEN FirstUserFrom(ServiceProviders[sp].Users, name, 1)
    ELSE IF \E other \in DOMAIN ServiceProviders :
                FirstUserFrom(ServiceProviders[other].Users, name, 1) # 0
    THEN 1
    ELSE 0

\* GetUserByName: index of the first user with that name, 0 for nil
GetUserByName(sp, name) == FirstUserFrom(ServiceProviders[sp].Users, name, 1)

(***************************************************************************)
(* NameID formats.                                                         *)
(***************************************************************************)
EmailAddressNameIDFormat == "urn:oasis:names:tc:SAML:1.1:nameid-format:emailAddress"
PersistentNameIDFormat == "urn:oasis:names:tc:SAML:2.0:nameid-format:persistent"
TransientNameIDFormat == "urn:oasis:names:tc:SAML:2.0:nameid-format:transient"
UnspecifiedNameIDFormat == "urn:oasis:names:tc:SAML:1.1:nameid-format:unspecified"

\* variant: transient is given the URI of persistent
NameIDFormats_TransientAsPersistent ==
    [ k \in {"email", "persistent", "transient", "unspecified"} |->
        CASE k = "email" -> EmailAddressNameIDFormat
          [] k = "persistent" -> PersistentNameIDFormat
          [] k = "transient" -> PersistentNameIDFormat
          [] k = "unspecified" -> UnspecifiedNameIDFormat ]

NameIDFormats ==
    [ k \in {"email", "persistent", "transient", "unspecified"} |->
        CASE k = "email" -> EmailAddressNameIDFormat
          [] k = "persistent" -> PersistentNameIDFormat
          [] k = "transient" -> TransientNameIDFormat
          [] k = "unspecified" -> UnspecifiedNameIDFormat ]

\* variant: the default is the unspecified format
GetNameIDFormat_DefaultUnspecified(format) ==
    IF format \in DOMAIN NameIDFormats THEN NameIDFormats[format]
    ELSE UnspecifiedNameIDFormat

GetNameIDFormat(format) ==
    IF format \in DOMAIN NameIDFormats THEN NameIDFormats[format]
    ELSE EmailAddressNameIDFormat

\* GetNameIDFormatString: the names it can return, the range over the map
\* returning at the first name it visits whose format is the one given
GetNameIDFormatString(format) ==
    IF \E name \in DOMAIN NameIDFormats : NameIDFormats[name] = format
    THEN { name \in DOMAIN NameIDFormats : NameIDFormats[name] = format }
    ELSE {"email"}

(***************************************************************************)
(* Attributes: buildCustomAttributes and attributeValues, with the two     *)
(* conversions of github.com/spf13/cast they call.                         *)
(***************************************************************************)
\* cast.ToString
castToString(value) ==
    CASE value.kind = "string" -> value.text
      [] value.kind = "bool" -> IF value.b THEN "true" ELSE "false"
      [] value.kind = "int" -> ToString(value.n)
      [] OTHER -> ""

\* cast.ToStringSliceE: a list gives the strings of its elements, a string
\* its whitespace-separated fields, another scalar the one-element slice of
\* its string
castToStringSliceE(value) ==
    CASE value.kind = "list" ->
            [slice |-> [i \in 1..Len(value.items) |-> castToString(value.items[i])],
             err |-> FALSE]
      [] value.kind = "string" -> [slice |-> value.fields, err |-> FALSE]
      [] value.kind \in {"bool", "int"} ->
            [slice |-> <<castToString(value)>>, err |-> FALSE]
      [] OTHER -> [slice |-> << >>, err |-> TRUE]

attributeValues(value) ==
    LET r == castToStringSliceE(value)
    IN  IF ~r.err /\ Len(r.slice) > 0
        THEN [i \in 1..Len(r.slice) |-> [Type |-> "xs:string", Value |-> r.slice[i]]]
        ELSE << [Type |-> "xs:string", Value |-> castToString(value)] >>

BasicNameFormat == "urn:oasis:names:tc:SAML:2.0:attrname-format:basic"

\* the saml.Attribute made for one entry of user.Attributes
MakeAttribute(name, value) ==
    [FriendlyName |-> name, Name |-> name, NameFormat |-> BasicNameFormat,
     Values |-> attributeValues(value)]

\* the orders in which a range over a map with key set S can visit the keys
IterationOrders(S) ==
    { f \in [1..Cardinality(S) -> S] :
          \A i, j \in 1..Cardinality(S) : f[i] = f[j] => i = j }

\* the nil *config.User
NilUser == [nil |-> TRUE]

\* variant: the last attribute visited is not appended
buildCustomAttributesFor_DropLast(user) ==
    IF user = NilUser \/ DOMAIN user.Attributes = {}
    THEN { << >> }
    ELSE { [i \in 1..(Len(order) - 1) |->
                MakeAttribute(order[i], user.Attributes[order[i]])] :
               order \in IterationOrders(DOMAIN user.Attributes) }

\* buildCustomAttributes(user): the slices it can return, one for each order
\* of iteration over the map user.Attributes
buildCustomAttributesFor(user) ==
    IF user = NilUser \/ DOMAIN user.Attributes = {}
    THEN { << >> }
    ELSE { [i \in 1..Len(order) |->
                MakeAttribute(order[i], user.Attributes[order[i]])] :
               order \in IterationOrders(DOMAIN user.Attributes) }

\* buildCustomAttributes for the user with index userIdx of service provider
\* spIdx (0 is the nil pointer)
buildCustomAttributes(spIdx, userIdx) ==
    buildCustomAttributesFor(IF userIdx = 0 THEN NilUser
                             ELSE ServiceProviders[spIdx].Users[userIdx])

(***************************************************************************)
(* The pending-request store: pure parts of the three operations.          *)
(***************************************************************************)
TenMinutes == 10

\* a *saml.IdpAuthnRequest; NilReq is the nil pointer
NilReq == [id |-> 0, EntityID |-> ""]

NilSession ==
    [ID |-> "", SP |-> NilSP, CreateTime |-> 0, ExpireTime |-> 0,
     SAMLRequest |-> NilReq]

\* variant: entries past their expiry are dropped when an entry is stored
StoreEntry_Sweep(store, requestID, req, spConfig, t1, t2) ==
    [ k \in { j \in DOMAIN store : ~(store[j].ExpireTime < t1) } \cup {requestID} |->
        IF k = requestID
        THEN [ID |-> requestID, SP |-> spConfig, CreateTime |-> t1,
              ExpireTime |-> t2 + TenMinutes, SAMLRequest |-> req]
        ELSE store[k] ]

\* the map after sp.pendingRequests[requestID] = &SessionData{...}; t1 and
\* t2 are the two readings of time.Now()
StoreEntry(store, requestID, req, spConfig, t1, t2) ==
    [ k \in (DOMAIN store) \cup {requestID} |->
        IF k = requestID
        THEN [ID |-> requestID, SP |-> spConfig, CreateTime |-> t1,
              ExpireTime |-> t2 + TenMinutes, SAMLRequest |-> req]
        ELSE store[k] ]

\* variant: no expiry check
LookupEntry_NoExpiry(store, requestID, t) ==
    IF requestID \notin DOMAIN store \/ store[requestID].SAMLRequest = NilReq
    THEN [session |-> NilSession, ok |-> FALSE]
    ELSE [session |-> store[requestID], ok |-> TRUE]

\* variant: no check of SAMLRequest
LookupEntry_NoNilCheck(store, requestID, t) ==
    IF requestID \notin DOMAIN store
    THEN [session |-> NilSession, ok |-> FALSE]
    ELSE IF store[requestID].ExpireTime < t
    THEN [session |-> NilSession, ok |-> FALSE]
    ELSE [session |-> store[requestID], ok |-> TRUE]

\* what GetPendingRequest returns at time t
LookupEntry(store, requestID, t) ==
    IF requestID \notin DOMAIN store \/ store[requestID].SAMLRequest = NilReq
    THEN [session |-> NilSession, ok |-> FALSE]
    ELSE IF store[requestID].ExpireTime < t
    THEN [session |-> NilSession, ok |-> FALSE]
    ELSE [session |-> store[requestID], ok |-> TRUE]

\* variant: a lookup evicts the entry it finds expired
MapAfterGet_Evict(store, requestID, t) ==
    IF requestID \in DOMAIN store /\ store[requestID].ExpireTime < t
    THEN [ k \in (DOMAIN store) \ {requestID} |-> store[k] ]
    ELSE store

\* the map when GetPendingRequest has returned: it only reads it
MapAfterGet(store, requestID, t) == store

\* variant: nothing is removed
DeleteEntry_Keep(store, requestID) == store

\* variant: only an entry with a request is removed
DeleteEntry_LiveOnly(store, requestID) ==
    IF requestID \in DOMAIN store /\ store[requestID].SAMLRequest = NilReq
    THEN store
    ELSE [ k \in (DOMAIN store) \ {requestID} |-> store[k] ]

\* the map after delete(sp.pendingRequests, requestID)
DeleteEntry(store, requestID) ==
    [ k \in (DOMAIN store) \ {requestID} |-> store[k] ]

(***************************************************************************)
(* State.                                                                  *)
(***************************************************************************)
VARIABLES
    now,              \* time.Now(), in minutes
    randState,        \* the package variable randState
    pendingRequests,  \* SessionProvider.pendingRequests
    mu,               \* SessionProvider.mu: [writer, readers]
    pc,               \* position of each worker
    loc,              \* the locals of the call each worker is in (or was in last)
    responses,        \* calls of createAndSendResponse, in order
    nCalls,           \* requests and direct calls of the store API so far
    cfgSps,           \* cfg.ServiceProviders, the slice handed to the registry
    spProvider,       \* Server.spProvider: [state, sps, err]
    resolved,         \* what the last call of GetServiceProviderConfig returned
    allSPs,           \* what the calls of GetAllServiceProviders returned, in order
    frame             \* the last call of a function of the mapper: [fn, args, ret]

vars == <<now, randState, pendingRequests, mu, pc, loc, responses, nCalls,
          cfgSps, spProvider, resolved, allSPs, frame>>

\* the variables no request handler writes: the registry, and the frame of
\* the functions called on their own
regVars == <<cfgSps, spProvider, resolved, allSPs, frame>>

\* variant: an unknown entity falls back to the first service provider
GetServiceProviderConfig_Fallback(entityID) ==
    IF entityID \in DOMAIN spProvider.sps
    THEN spProvider.sps[entityID].Config ELSE 1

\* s.spProvider.GetServiceProviderConfig(entityID)
GetServiceProviderConfig(entityID) == LookupConfig(spProvider, entityID)

\* no call of GetServiceProviderConfig was made
NoLookup == [entityID |-> "", config |-> NilSP, called |-> FALSE]

\* no function was called
NoFrame == [fn |-> "", args |-> << >>, ret |-> << >>]

NoWorker == 0

ZeroState == <<0, 0, 0, 0, 0, 0, 0, 0>>

NoHTTP == [status |-> 0, body |-> ""]

\* the zero LoginPageData: no page was rendered
NoPage == [RequestID |-> "", SPName |-> "", Users |-> << >>]

IdleLoc ==
    [call |-> 0, kind |-> "none", method |-> "", requestID |-> "", req |-> NilReq,
     spConfig |-> NilSP, rs |-> ZeroState, session |-> NilSession,
     ok |-> FALSE, user |-> "", http |-> NoHTTP, page |-> NoPage]

\* the locals of a worker whose call has returned: what it was called with
\* and the response it wrote
Returned(l, h) ==
    [IdleLoc EXCEPT !.call = l.call, !.kind = l.kind, !.method = l.method,
                    !.requestID = l.requestID, !.user = l.user, !.http = h]

Methods == {"GET", "POST", "PUT"}

\* values of the form field "user"
FormUsers == {"", "Ann", "Cy", "Zed"}

\* request ids used by callers of the store API (the tests' fixed strings)
TestIDs == {"test-request"}

\* the service provider handed to a direct StorePendingRequest
TestSPs == {1}

\* the request handed to a direct StorePendingRequest: nil, as in the tests
TestReqs == {NilReq}

\* outcomes of saml.DefaultAssertionMaker.MakeAssertion / req.WriteResponse
SignOutcomes == {"ok", "assertion_failed", "write_failed"}

FiveMinutes == 5

Init ==
    /\ now = 0
    /\ randState = Seed
    /\ pendingRequests = [k \in {} |-> NilSession]
    /\ mu = [writer |-> NoWorker, readers |-> {}]
    /\ pc = [w \in Workers |-> "idle"]
    /\ loc = [w \in Workers |-> IdleLoc]
    /\ responses = << >>
    /\ nCalls = 0
    /\ cfgSps = ServiceProviders
    /\ spProvider = NewServiceProviderProvider(ServiceProviders)
    /\ resolved = NoLookup
    /\ allSPs = << >>
    /\ frame = NoFrame

\* the clock advances
Tick ==
    /\ now + TickStep <= MaxTime
    /\ now' = now + TickStep
    /\ UNCHANGED <<randState, pendingRequests, mu, pc, loc, responses, nCalls>>
    /\ UNCHANGED regVars

(***************************************************************************)
(* The store operations as one step each.  Each of them runs under         *)
(* sp.mu from its first statement to its return, so the handlers see them  *)
(* as atomic; LockSpec further down has the lock itself.                   *)
(***************************************************************************)
\* StorePendingRequest: time.Now() is read twice and the clock may advance
\* by d between the two readings
StorePendingRequest(requestID, req, spConfig, d) ==
    /\ now + d <= MaxTime
    /\ now' = now + d
    /\ pendingRequests' =
           StoreEntry(pendingRequests, requestID, req, spConfig, now, now + d)

\* GetPendingRequest: what it returns; the map is left as MapAfterGet says
GetPendingRequest(requestID) == LookupEntry(pendingRequests, requestID, now)

GetLeaves(requestID) ==
    pendingRequests' = MapAfterGet(pendingRequests, requestID, now)

\* DeletePendingRequest
DeletePendingRequest(requestID) ==
    pendingRequests' = DeleteEntry(pendingRequests, requestID)

(***************************************************************************)
(* handleSSO                                                               *)
(***************************************************************************)
\* lines 46-67: parse, validate, look the service provider up.  The first
\* read of randState by randomHex(16) is taken here.
HandleSSO(w) ==
    /\ pc[w] = "idle"
    /\ nCalls < MaxCalls
    /\ nCalls' = nCalls + 1
    /\ \E parseOK \in BOOLEAN, validOK \in BOOLEAN, entityID \in EntityIDs :
        LET req == [id |-> nCalls + 1, EntityID |-> entityID]
            spConfig == GetServiceProviderConfig(entityID)
            base == [IdleLoc EXCEPT !.call = nCalls + 1, !.kind = "sso",
                                    !.method = "GET"]
        IN  IF ~parseOK \/ ~validOK
            THEN /\ loc' = [loc EXCEPT ![w] = Returned(base,
                       [status |-> 400, body |-> "Invalid SAML request"])]
                 /\ pc' = pc
            ELSE IF spConfig = NilSP
            THEN /\ loc' = [loc EXCEPT ![w] = Returned(base,
                       [status |-> 400, body |-> "Unknown service provider"])]
                 /\ pc' = pc
            ELSE /\ loc' = [loc EXCEPT ![w] = [base EXCEPT !.req = req,
                       !.spConfig = spConfig, !.rs = randState]]
                 /\ pc' = [pc EXCEPT ![w] = "sso_store"]
    /\ UNCHANGED <<now, randState, pendingRequests, mu, responses>>
    /\ UNCHANGED regVars

\* the nil *saml.Session
NilSamlSession == [nil |-> TRUE]

\* SessionProvider.GetSession: no session is kept from one request to the
\* next
GetSession(req) == NilSamlSession

\* variant: the request is answered at once for the first user of the
\* service provider, and no pending request is stored
SSOStore_AnswerFromSession(w) ==
    /\ pc[w] = "sso_store"
    /\ \E r \in {randomHex(loc[w].rs, 16)} :
        /\ randState' = r.state
        /\ responses' = Append(responses,
               [requestID |-> "", req |-> loc[w].req,
                session |-> [ID |-> r.str, UserName |->
                                ServiceProviders[loc[w].spConfig].Users[1].Name],
                outcome |-> "ok"])
        /\ loc' = [loc EXCEPT ![w] = Returned(loc[w],
                       [status |-> 200, body |-> "SAMLResponse"])]
    /\ pc' = [pc EXCEPT ![w] = "idle"]
    /\ UNCHANGED <<now, pendingRequests, mu, nCalls>>
    /\ UNCHANGED regVars

\* lines 69-76: requestID := randomHex(16), StorePendingRequest, redirect.
\* randState is read and written without synchronisation: the string is
\* computed from the value read at the start and the last value is written
\* back.
SSOStore(w) ==
    /\ pc[w] = "sso_store"
    /\ \E r \in {randomHex(loc[w].rs, 16)}, d \in {0, TickStep} :
        /\ randState' = r.state
        /\ StorePendingRequest(r.str, loc[w].req, loc[w].spConfig, d)
        /\ loc' = [loc EXCEPT ![w] =
               Returned([loc[w] EXCEPT !.requestID = r.str],
                        [status |-> 302, body |-> "/login?request_id=" \o r.str])]
    /\ pc' = [pc EXCEPT ![w] = "idle"]
    /\ UNCHANGED <<mu, responses, nCalls>>
    /\ UNCHANGED regVars

(***************************************************************************)
(* handleLogin                                                             *)
(***************************************************************************)
\* the request ids a client can send: tokens in the store, tokens of
\* earlier responses, and strings that were never issued
LoginIDs ==
    (DOMAIN pendingRequests)
        \cup { responses[i].requestID : i \in DOMAIN responses }
        \cup TestIDs \cup {"", "invalid"}

\* variant: the method is examined before the token
LoginDispatch_MethodFirst(method, r) ==
    IF method \notin {"GET", "POST"}
    THEN [status |-> 405, body |-> "Method not allowed"]
    ELSE IF ~r.ok THEN [status |-> 400, body |-> "Invalid or expired request"]
    ELSE IF method = "GET"
    THEN [status |-> 200, body |-> ServiceProviders[r.session.SP].EntityID]
    ELSE NoHTTP

\* what handleLogin answers at once, given the result of GetPendingRequest
\* (lines 89-106, with showLoginPage for GET); NoHTTP when it goes on to
\* processLogin
LoginDispatch(method, r) ==
    IF ~r.ok THEN [status |-> 400, body |-> "Invalid or expired request"]
    ELSE IF method = "GET"
    THEN [status |-> 200, body |-> ServiceProviders[r.session.SP].EntityID]
    ELSE IF method = "POST" THEN NoHTTP
    ELSE [status |-> 405, body |-> "Method not allowed"]

\* showLoginPage, lines 118-122: the data handed to the template
LoginPageData(requestID, pendingSession) ==
    [RequestID |-> requestID,
     SPName |-> ServiceProviders[pendingSession.SP].EntityID,
     Users |-> ServiceProviders[pendingSession.SP].Users]

\* lines 80-106
HandleLogin(w) ==
    /\ pc[w] = "idle"
    /\ nCalls < MaxCalls
    /\ nCalls' = nCalls + 1
    /\ \E method \in Methods, requestID \in LoginIDs :
        LET base == [IdleLoc EXCEPT !.call = nCalls + 1, !.kind = "login",
                                    !.method = method, !.requestID = requestID]
            r == GetPendingRequest(requestID)
        IN  IF requestID = ""
            THEN /\ loc' = [loc EXCEPT ![w] = Returned(base,
                       [status |-> 400, body |-> "Missing request_id"])]
                 /\ pc' = pc
                 /\ UNCHANGED pendingRequests
            ELSE IF r.ok /\ method = "POST"
            THEN /\ loc' = [loc EXCEPT ![w] =
                       [base EXCEPT !.session = r.session, !.ok = r.ok]]
                 /\ pc' = [pc EXCEPT ![w] = "process"]
                 /\ GetLeaves(requestID)
            ELSE /\ loc' = [loc EXCEPT ![w] =
                       [Returned(base, LoginDispatch(method, r)) EXCEPT
                           !.page = IF r.ok /\ method = "GET"
                                    THEN LoginPageData(requestID, r.session)
                                    ELSE NoPage]]
                 /\ pc' = pc
                 /\ GetLeaves(requestID)
    /\ UNCHANGED <<now, randState, mu, responses>>
    /\ UNCHANGED regVars

(***************************************************************************)
(* processLogin / createAndSendResponse                                    *)
(***************************************************************************)
\* variant: the display name is used as NameID
SamlSession_NameAsID(sessionID, spIdx, userIdx, t, attrs) ==
    LET sp == ServiceProviders[spIdx]
        user == sp.Users[userIdx]
    IN  [ID |-> sessionID, CreateTime |-> t, ExpireTime |-> t + FiveMinutes,
         Index |-> sessionID, NameID |-> user.Name,
         NameIDFormat |-> GetNameIDFormat(sp.NameIDFormat),
         SubjectID |-> user.NameID, UserName |-> user.Name,
         CustomAttributes |-> attrs]

\* the saml.Session of lines 158-169; attrs is what buildCustomAttributes
\* returned
SamlSession(sessionID, spIdx, userIdx, t, attrs) ==
    LET sp == ServiceProviders[spIdx]
        user == sp.Users[userIdx]
    IN  [ID |-> sessionID, CreateTime |-> t, ExpireTime |-> t + FiveMinutes,
         Index |-> sessionID, NameID |-> user.NameID,
         NameIDFormat |-> GetNameIDFormat(sp.NameIDFormat),
         SubjectID |-> user.NameID, UserName |-> user.Name,
         CustomAttributes |-> attrs]

\* the response createAndSendResponse leaves behind
SignHTTP(outcome) ==
    CASE outcome = "ok" -> [status |-> 200, body |-> "SAMLResponse"]
      [] outcome = "assertion_failed" ->
            [status |-> 500, body |-> "Failed to create assertion"]
      [] outcome = "write_failed" ->
            [status |-> 500, body |-> "Failed to send response"]

\* variant: a failed response keeps the pending request
AfterResponse_Rollback(outcome) == IF outcome = "ok" THEN "delete" ELSE "idle"

\* where processLogin goes when createAndSendResponse has returned: on to
\* DeletePendingRequest, whatever the outcome
AfterResponse(outcome) == "delete"

\* lines 139-172
ProcessLogin(w) ==
    /\ pc[w] = "process"
    /\ \E formOK \in BOOLEAN, userName \in FormUsers, outcome \in SignOutcomes :
        LET sess == loc[w].session
            user == GetUserByName(sess.SP, userName)
        IN  IF ~formOK
            THEN /\ outcome = "ok" /\ userName = ""
                 /\ loc' = [loc EXCEPT ![w] = Returned(loc[w],
                               [status |-> 400, body |-> "Invalid form data"])]
                 /\ pc' = [pc EXCEPT ![w] = "idle"]
                 /\ UNCHANGED <<randState, responses>>
            ELSE IF userName = ""
            THEN /\ outcome = "ok"
                 /\ loc' = [loc EXCEPT ![w] = Returned(loc[w],
                               [status |-> 400, body |-> "No user selected"])]
                 /\ pc' = [pc EXCEPT ![w] = "idle"]
                 /\ UNCHANGED <<randState, responses>>
            ELSE IF user = 0
            THEN /\ outcome = "ok"
                 /\ loc' = [loc EXCEPT ![w] =
                               Returned([loc[w] EXCEPT !.user = userName],
                                   [status |-> 400, body |-> "Invalid user"])]
                 /\ pc' = [pc EXCEPT ![w] = "idle"]
                 /\ UNCHANGED <<randState, responses>>
            ELSE \E r \in {randomHex(randState, 32)},
                    attrs \in buildCustomAttributes(sess.SP, user) :
                 /\ randState' = r.state
                 /\ responses' = Append(responses,
                       [requestID |-> loc[w].requestID,
                        req |-> sess.SAMLRequest,
                        session |-> SamlSession(r.str, sess.SP, user, now, attrs),
                        outcome |-> outcome])
                 /\ loc' = [loc EXCEPT ![w].user = userName,
                                       ![w].http = SignHTTP(outcome)]
                 /\ pc' = [pc EXCEPT ![w] = AfterResponse(outcome)]
    /\ UNCHANGED <<now, pendingRequests, mu, nCalls>>
    /\ UNCHANGED regVars

\* lines 174-175: s.sessionProvider.DeletePendingRequest(requestID)
LoginDelete(w) ==
    /\ pc[w] = "delete"
    /\ DeletePendingRequest(loc[w].requestID)
    /\ loc' = [loc EXCEPT ![w] = Returned(loc[w], loc[w].http)]
    /\ pc' = [pc EXCEPT ![w] = "idle"]
    /\ UNCHANGED <<now, randState, mu, responses, nCalls>>
    /\ UNCHANGED regVars

(***************************************************************************)
(* Direct calls of the store API (as in session_test.go, handlers_test.go) *)
(***************************************************************************)
DirectIDs == (DOMAIN pendingRequests) \cup TestIDs

CallStore(w) ==
    /\ pc[w] = "idle"
    /\ nCalls < MaxCalls
    /\ nCalls' = nCalls + 1
    /\ \E requestID \in TestIDs, req \in TestReqs, spConfig \in TestSPs,
          d \in {0, TickStep} :
        /\ StorePendingRequest(requestID, req, spConfig, d)
        /\ loc' = [loc EXCEPT ![w] =
               Returned([IdleLoc EXCEPT !.call = nCalls + 1, !.kind = "store",
                                        !.requestID = requestID], NoHTTP)]
    /\ UNCHANGED <<randState, mu, pc, responses>>
    /\ UNCHANGED regVars

CallGet(w) ==
    /\ pc[w] = "idle"
    /\ nCalls < MaxCalls
    /\ nCalls' = nCalls + 1
    /\ \E requestID \in DirectIDs :
        LET r == GetPendingRequest(requestID)
        IN  /\ loc' = [loc EXCEPT ![w] =
                    [IdleLoc EXCEPT !.call = nCalls + 1, !.kind = "get",
                                    !.requestID = requestID,
                                    !.session = r.session, !.ok = r.ok]]
            /\ GetLeaves(requestID)
    /\ UNCHANGED <<now, randState, mu, pc, responses>>
    /\ UNCHANGED regVars

CallDelete(w) ==
    /\ pc[w] = "idle"
    /\ nCalls < MaxCalls
    /\ nCalls' = nCalls + 1
    /\ \E requestID \in DirectIDs :
        /\ DeletePendingRequest(requestID)
        /\ loc' = [loc EXCEPT ![w] =
               Returned([IdleLoc EXCEPT !.call = nCalls + 1, !.kind = "delete",
                                        !.requestID = requestID], NoHTTP)]
    /\ UNCHANGED <<now, randState, mu, pc, responses>>
    /\ UNCHANGED regVars

(***************************************************************************)
(* Specifications                                                          *)
(***************************************************************************)
WorkerStep(w) ==
    \/ HandleSSO(w)
    \/ SSOStore(w)
    \/ HandleLogin(w)
    \/ ProcessLogin(w)
    \/ LoginDelete(w)
    \/ CallStore(w)
    \/ CallGet(w)
    \/ CallDelete(w)

Next == Tick \/ \E w \in Workers : WorkerStep(w)

\* requests are served concurrently, one goroutine each
Spec == Init /\ [][Next]_vars

\* a sequential run: a call starts only when no other call is in progress
SeqNext ==
    \/ Tick
    \/ \E w \in Workers :
        /\ \A v \in Workers \ {w} : pc[v] = "idle"
        /\ WorkerStep(w)

SeqSpec == Init /\ [][SeqNext]_vars

(***************************************************************************)
(* The store with its lock: sp.mu is a sync.RWMutex, StorePendingRequest   *)
(* and DeletePendingRequest take it with Lock, GetPendingRequest with      *)
(* RLock, and each releases it by a deferred Unlock / RUnlock.  A worker   *)
(* is at "lock" / "rlock" while it waits for the mutex, at "cs" when it    *)
(* holds it and has its map access still to do, and at "unlock" /          *)
(* "runlock" when the body is done and the deferred release is to run.     *)
(***************************************************************************)
\* variant: Lock does not wait for the readers
CanLock_IgnoreReaders == mu.writer = NoWorker

\* sync.RWMutex.Lock returns when there is no writer and no reader
CanLock == mu.writer = NoWorker /\ mu.readers = {}

\* variant: RLock does not wait for the writer
CanRLock_IgnoreWriter == TRUE

\* sync.RWMutex.RLock returns when there is no writer
CanRLock == mu.writer = NoWorker

\* the calls that write the map
Writes(kind) == kind \in {"store", "delete"}

\* the map access of worker w overlaps the one of another worker, one of
\* the two being a write: a data race on the map, which the mutex is there
\* to exclude
MapRace(w) ==
    \E v \in Workers \ {w} :
        /\ pc[v] = "cs"
        /\ (Writes(loc[w].kind) \/ Writes(loc[v].kind))

\* a SessionData of which only some fields are visible
PartialSession(requestID) == [NilSession EXCEPT !.ID = requestID]

\* what a raced read of the map can give
RacyLookup(store, requestID, t) ==
    { LookupEntry(store, requestID, t),
      [session |-> NilSession, ok |-> FALSE],
      [session |-> PartialSession(requestID), ok |-> TRUE] }

\* what a raced write of the map can leave: the write done or lost
RacyWrite(store, written) == {written, store}

\* the request ids a caller of GetPendingRequest / DeletePendingRequest can
\* hold: the ones in the map, the ones of calls in progress or returned,
\* and one that was never issued
LockIDs ==
    (DOMAIN pendingRequests)
        \cup { loc[v].requestID : v \in { u \in Workers : loc[u].kind = "store" } }
        \cup {"invalid"}

\* handleSSO lines 69-70 up to the call: the token is drawn and
\* StorePendingRequest is entered
BeginStore(w) ==
    /\ pc[w] = "idle"
    /\ nCalls < MaxCalls
    /\ nCalls' = nCalls + 1
    /\ \E r \in {randomHex(randState, 16)}, entityID \in RegistryKeys :
        /\ randState' = r.state
        /\ loc' = [loc EXCEPT ![w] =
               [IdleLoc EXCEPT !.call = nCalls + 1, !.kind = "store",
                               !.requestID = r.str,
                               !.req = [id |-> nCalls + 1, EntityID |-> entityID],
                               !.spConfig = GetServiceProviderConfig(entityID)]]
    /\ pc' = [pc EXCEPT ![w] = "lock"]
    /\ UNCHANGED <<now, pendingRequests, mu, responses>>
    /\ UNCHANGED regVars

\* GetPendingRequest is entered
BeginGet(w) ==
    /\ pc[w] = "idle"
    /\ nCalls < MaxCalls
    /\ nCalls' = nCalls + 1
    /\ \E requestID \in LockIDs :
        loc' = [loc EXCEPT ![w] =
            [IdleLoc EXCEPT !.call = nCalls + 1, !.kind = "get",
                            !.requestID = requestID]]
    /\ pc' = [pc EXCEPT ![w] = "rlock"]
    /\ UNCHANGED <<now, randState, pendingRequests, mu, responses>>
    /\ UNCHANGED regVars

\* DeletePendingRequest is entered
BeginDelete(w) ==
    /\ pc[w] = "idle"
    /\ nCalls < MaxCalls
    /\ nCalls' = nCalls + 1
    /\ \E requestID \in LockIDs :
        loc' = [loc EXCEPT ![w] =
            [IdleLoc EXCEPT !.call = nCalls + 1, !.kind = "delete",
                            !.requestID = requestID]]
    /\ pc' = [pc EXCEPT ![w] = "lock"]
    /\ UNCHANGED <<now, randState, pendingRequests, mu, responses>>
    /\ UNCHANGED regVars

\* sp.mu.Lock()
Lock(w) ==
    /\ pc[w] = "lock"
    /\ CanLock
    /\ mu' = [mu EXCEPT !.writer = w]
    /\ pc' = [pc EXCEPT ![w] = "cs"]
    /\ UNCHANGED <<now, randState, pendingRequests, loc, responses, nCalls>>
    /\ UNCHANGED regVars

\* sp.mu.RLock()
RLock(w) ==
    /\ pc[w] = "rlock"
    /\ CanRLock
    /\ mu' = [mu EXCEPT !.readers = @ \cup {w}]
    /\ pc' = [pc EXCEPT ![w] = "cs"]
    /\ UNCHANGED <<now, randState, pendingRequests, loc, responses, nCalls>>
    /\ UNCHANGED regVars

\* lines 83-89
StoreCS(w) ==
    /\ pc[w] = "cs"
    /\ loc[w].kind = "store"
    /\ \E d \in {0, TickStep} :
        /\ now + d <= MaxTime
        /\ now' = now + d
        /\ LET written == StoreEntry(pendingRequests, loc[w].requestID,
                                     loc[w].req, loc[w].spConfig, now, now + d)
           IN  IF MapRace(w)
               THEN pendingRequests' \in RacyWrite(pendingRequests, written)
               ELSE pendingRequests' = written
    /\ pc' = [pc EXCEPT ![w] = "unlock"]
    /\ UNCHANGED <<randState, mu, loc, responses, nCalls>>
    /\ UNCHANGED regVars

\* lines 97-104
GetCS(w) ==
    /\ pc[w] = "cs"
    /\ loc[w].kind = "get"
    /\ \E r \in IF MapRace(w)
                THEN RacyLookup(pendingRequests, loc[w].requestID, now)
                ELSE {LookupEntry(pendingRequests, loc[w].requestID, now)} :
        loc' = [loc EXCEPT ![w].session = r.session, ![w].ok = r.ok]
    /\ pendingRequests' = MapAfterGet(pendingRequests, loc[w].requestID, now)
    /\ pc' = [pc EXCEPT ![w] = "runlock"]
    /\ UNCHANGED <<now, randState, mu, responses, nCalls>>
    /\ UNCHANGED regVars

\* line 111
DeleteCS(w) ==
    /\ pc[w] = "cs"
    /\ loc[w].kind = "delete"
    /\ LET written == DeleteEntry(pendingRequests, loc[w].requestID)
       IN  IF MapRace(w)
           THEN pendingRequests' \in RacyWrite(pendingRequests, written)
           ELSE pendingRequests' = written
    /\ pc' = [pc EXCEPT ![w] = "unlock"]
    /\ UNCHANGED <<now, randState, mu, loc, responses, nCalls>>
    /\ UNCHANGED regVars

\* variant: a return path that leaves the mutex locked
Unlock_KeepsLock(w) ==
    /\ pc[w] = "unlock"
    /\ pc' = [pc EXCEPT ![w] = "idle"]
    /\ UNCHANGED <<now, randState, pendingRequests, mu, loc, responses, nCalls>>
    /\ UNCHANGED regVars

\* the deferred sp.mu.Unlock()
Unlock(w) ==
    /\ pc[w] = "unlock"
    /\ mu' = [mu EXCEPT !.writer = NoWorker]
    /\ pc' = [pc EXCEPT ![w] = "idle"]
    /\ UNCHANGED <<now, randState, pendingRequests, loc, responses, nCalls>>
    /\ UNCHANGED regVars

\* the deferred sp.mu.RUnlock()
RUnlock(w) ==
    /\ pc[w] = "runlock"
    /\ mu' = [mu EXCEPT !.readers = @ \ {w}]
    /\ pc' = [pc EXCEPT ![w] = "idle"]
    /\ UNCHANGED <<now, randState, pendingRequests, loc, responses, nCalls>>
    /\ UNCHANGED regVars

LockNext ==
    \/ Tick
    \/ \E w \in Workers : BeginStore(w)
    \/ \E w \in Workers : BeginGet(w)
    \/ \E w \in Workers : BeginDelete(w)
    \/ \E w \in Workers : Lock(w)
    \/ \E w \in Workers : RLock(w)
    \/ \E w \in Workers : StoreCS(w)
    \/ \E w \in Workers : GetCS(w)
    \/ \E w \in Workers : DeleteCS(w)
    \/ \E w \in Workers : Unlock(w)
    \/ \E w \in Workers : RUnlock(w)

\* concurrent callers of the three store operations
LockSpec == Init /\ [][LockNext]_vars

\* a goroutine inside a store operation goes on running (the Go scheduler
\* does not leave a runnable goroutine aside for ever), and a goroutine
\* waiting in Lock or RLock gets the mutex if it is free again and again
\* (sync.RWMutex: a blocked Lock holds back new readers, Unlock wakes the
\* waiting readers)
LockFairness ==
    \A w \in Workers :
        /\ WF_vars(StoreCS(w) \/ GetCS(w) \/ DeleteCS(w))
        /\ WF_vars(Unlock(w) \/ RUnlock(w))
        /\ SF_vars(Lock(w))
        /\ SF_vars(RLock(w))

LockFairSpec == LockSpec /\ LockFairness

(***************************************************************************)
(* Construction of the registry: idp.New hands cfg.ServiceProviders to     *)
(* NewServiceProviderProvider; the configurations are the lists of at most *)
(* MaxSPs elements drawn from ConfigEntries.                               *)
(***************************************************************************)
\* the (acs_url, metadata_file) pairs of the elements
ConfigSources ==
    { <<"https://sp/acs", "">>, <<"", "good.xml">>, <<"", "missing.xml">>,
      <<"https://sp/acs", "bad.xml">>, <<"", "">> }

ConfigEntries ==
    { [EntityID |-> id, ACSURL |-> src[1], MetadataFile |-> src[2],
       NameIDFormat |-> "email", Users |-> << >>] :
          id \in {"sp-a", "sp-b"}, src \in ConfigSources }

ConfigLists == UNION { [1..n -> ConfigEntries] : n \in 0..MaxSPs }

\* the identifiers GetServiceProviderConfig is asked for
RegistryIDs == {"sp-a", "sp-b", "sp-none", "sp-from-file"}

\* the variables of the request handlers and of the store
srvVars == <<now, randState, pendingRequests, mu, pc, loc, responses, nCalls>>

RegistryInit ==
    /\ now = 0
    /\ randState = Seed
    /\ pendingRequests = [k \in {} |-> NilSession]
    /\ mu = [writer |-> NoWorker, readers |-> {}]
    /\ pc = [w \in Workers |-> "idle"]
    /\ loc = [w \in Workers |-> IdleLoc]
    /\ responses = << >>
    /\ nCalls = 0
    /\ cfgSps \in ConfigLists
    /\ spProvider = NoProvider
    /\ resolved = NoLookup
    /\ allSPs = << >>
    /\ frame = NoFrame

\* idp.New, line 40: spProvider, err := NewServiceProviderProvider(...)
New ==
    /\ spProvider.state = "none"
    /\ spProvider' = NewServiceProviderProvider(cfgSps)
    /\ UNCHANGED <<cfgSps, resolved, allSPs, frame>>
    /\ UNCHANGED srvVars

\* a call of GetServiceProviderConfig on the provider that was built
Resolve ==
    /\ spProvider.state = "ok"
    /\ \E entityID \in RegistryIDs :
        resolved' = [entityID |-> entityID,
                     config |-> GetServiceProviderConfig(entityID),
                     called |-> TRUE]
    /\ UNCHANGED <<cfgSps, spProvider, allSPs, frame>>
    /\ UNCHANGED srvVars

\* GetAllServiceProviders on provider p: the slices it can return, one for
\* each order in which the range over the map p.sps visits its keys
GetAllServiceProviders(p) ==
    { [i \in 1..Len(order) |-> p.sps[order[i]].Config] :
          order \in IterationOrders(DOMAIN p.sps) }

\* a call of GetAllServiceProviders on the provider that was built
ListAll ==
    /\ spProvider.state = "ok"
    /\ Len(allSPs) < MaxListings
    /\ \E sps \in GetAllServiceProviders(spProvider) :
        allSPs' = Append(allSPs, sps)
    /\ UNCHANGED <<cfgSps, spProvider, resolved, frame>>
    /\ UNCHANGED srvVars

RegistryNext == New \/ Resolve \/ ListAll

RegistrySpec == RegistryInit /\ [][RegistryNext]_vars

(***************************************************************************)
(* The functions of the mapper called on their own, as the package's unit  *)
(* tests call them: frame holds the function, its arguments and what it    *)
(* returned.                                                               *)
(***************************************************************************)
\* the users of a service provider: display names and NameIDs
UserRecords ==
    { [Name |-> n, NameID |-> id] :
          n \in {"", "Ann", "Bob"}, id \in {"id-1", "id-2"} }

UserLists == UNION { [1..n -> UserRecords] : n \in 0..MaxUsers }

\* the names GetUserByName is asked for
UserNames == {"", "Ann", "Bob", "Zed"}

MapperInit ==
    /\ Init
    /\ frame = NoFrame

\* sp.GetUserByName(name) on a service provider with the given Users
CallGetUserByName ==
    /\ frame = NoFrame
    /\ \E users \in UserLists, name \in UserNames :
        frame' = [fn |-> "GetUserByName", args |-> <<users, name>>,
                  ret |-> FirstUserFrom(users, name, 1)]
    /\ UNCHANGED <<cfgSps, spProvider, resolved, allSPs>>
    /\ UNCHANGED srvVars

\* the values of name_id_format GetNameIDFormat is called with
FormatKeywords ==
    {"email", "persistent", "transient", "unspecified",
     "", "bogus", "unknown", "EMAIL", "Persistent", "transient "}

\* the formats GetNameIDFormatString is called with
FormatURIs ==
    { GetNameIDFormat(k) : k \in FormatKeywords }
        \cup {"urn:oasis:names:tc:SAML:2.0:nameid-format:entity"}

CallGetNameIDFormat ==
    /\ frame = NoFrame
    /\ \E format \in FormatKeywords :
        frame' = [fn |-> "GetNameIDFormat", args |-> <<format>>,
                  ret |-> GetNameIDFormat(format)]
    /\ UNCHANGED <<cfgSps, spProvider, resolved, allSPs>>
    /\ UNCHANGED srvVars

CallGetNameIDFormatString ==
    /\ frame = NoFrame
    /\ \E format \in FormatURIs :
        \E name \in GetNameIDFormatString(format) :
        frame' = [fn |-> "GetNameIDFormatString", args |-> <<format>>,
                  ret |-> name]
    /\ UNCHANGED <<cfgSps, spProvider, resolved, allSPs>>
    /\ UNCHANGED srvVars

\* the attribute values attributeValues is called with: strings (one of
\* them empty, one with a space), booleans, integers, and lists of up to
\* MaxItems elements
ScalarValues ==
    {StringValue("test", <<"test">>), StringValue("John Doe", <<"John", "Doe">>),
     StringValue("", << >>), BoolValue(TRUE), BoolValue(FALSE),
     IntValue(0), IntValue(42)}

ElementValues ==
    {StringValue("a", <<"a">>), StringValue("b", <<"b">>),
     StringValue("b c", <<"b", "c">>), BoolValue(TRUE), IntValue(7)}

AttributeInputs ==
    ScalarValues \cup
        { ListValue(items) : items \in UNION { [1..n -> ElementValues] : n \in 0..MaxItems } }

CallAttributeValues ==
    /\ frame = NoFrame
    /\ \E value \in AttributeInputs :
        frame' = [fn |-> "attributeValues", args |-> <<value>>,
                  ret |-> attributeValues(value)]
    /\ UNCHANGED <<cfgSps, spProvider, resolved, allSPs>>
    /\ UNCHANGED srvVars

\* the users buildCustomAttributes is called with: nil, and users whose
\* Attributes map has any subset of AttributeNames as its keys
AttributeNames == {"email", "groups", "active"}

AttributeSamples ==
    {StringValue("admin", <<"admin">>),
     ListValue(<<StringValue("a", <<"a">>), StringValue("b", <<"b">>)>>),
     BoolValue(TRUE), IntValue(42)}

AttributeUsers ==
    {NilUser} \cup
        { [Name |-> "Ann", NameID |-> "id-1", Attributes |-> attributes] :
              attributes \in UNION { [S -> AttributeSamples] : S \in SUBSET AttributeNames } }

CallBuildCustomAttributes ==
    /\ frame = NoFrame
    /\ \E user \in AttributeUsers :
        \E attrs \in buildCustomAttributesFor(user) :
        frame' = [fn |-> "buildCustomAttributes", args |-> <<user>>,
                  ret |-> attrs]
    /\ UNCHANGED <<cfgSps, spProvider, resolved, allSPs>>
    /\ UNCHANGED srvVars

\* the values of randState pseudoRand and randomHex are called with: the
\* seed, every state whose bytes are each 0x00 or 0xFF, and states with a
\* single byte of 0x01, 0x7F or 0x80
GeneratorStates ==
    {Seed}
        \cup { [k \in 1..8 |-> IF k \in S THEN 255 ELSE 0] : S \in SUBSET (1..8) }
        \cup { [k \in 1..8 |-> IF k = j THEN v ELSE 0] : j \in 1..8, v \in {1, 127, 128} }

\* the lengths randomHex is called with: 0..MaxHexLen, and the two the
\* handlers use
HexLengths == (0..MaxHexLen) \cup {16, 32}

CallPseudoRand ==
    /\ frame = NoFrame
    /\ \E s \in GeneratorStates :
        frame' = [fn |-> "pseudoRand", args |-> <<s>>, ret |-> pseudoRand(s)]
    /\ UNCHANGED <<cfgSps, spProvider, resolved, allSPs>>
    /\ UNCHANGED srvVars

CallRandomHex ==
    /\ frame = NoFrame
    /\ \E s \in GeneratorStates, n \in HexLengths :
        \E r \in {randomHex(s, n)} :
        frame' = [fn |-> "randomHex", args |-> <<s, n>>, ret |-> r]
    /\ UNCHANGED <<cfgSps, spProvider, resolved, allSPs>>
    /\ UNCHANGED srvVars

MapperNext ==
    \/ CallGetUserByName
    \/ CallPseudoRand
    \/ CallRandomHex
    \/ CallAttributeValues
    \/ CallBuildCustomAttributes
    \/ CallGetNameIDFormat
    \/ CallGetNameIDFormatString

MapperSpec == MapperInit /\ [][MapperNext]_vars

(***************************************************************************)
(* Vocabulary of the properties.                                           *)
(***************************************************************************)
\* worker w takes the first step of a call of the given kind
Called(w, kind) ==
    /\ nCalls' = nCalls + 1
    /\ loc'[w].call = nCalls'
    /\ loc'[w].kind = kind

\* worker w finishes processLogin by DeletePendingRequest
Deleted(w) == pc[w] = "delete" /\ pc'[w] = "idle"

\* worker w runs processLogin up to its early return or to the response
Processed(w) == pc[w] = "process" /\ pc'[w] # "process"

InvalidOrExpired == [status |-> 400, body |-> "Invalid or expired request"]

DisplayNames(sp) ==
    { ServiceProviders[sp].Users[i].Name : i \in DOMAIN ServiceProviders[sp].Users }

Registered(entityID) ==
    \E i \in DOMAIN ServiceProviders : ServiceProviders[i].EntityID = entityID

\* the entry of token k is in the map and its expiry time has passed
PastExpiry(k) ==
    k \in DOMAIN pendingRequests /\ pendingRequests[k].ExpireTime < now

\* the entry of token k is in the map without a request handle
NoHandle(k) ==
    k \in DOMAIN pendingRequests /\ pendingRequests[k].SAMLRequest = NilReq

ResponsesFor(k) == { i \in DOMAIN responses : responses[i].requestID = k }

RespondedTokens == { responses[i].requestID : i \in DOMAIN responses }

(***************************************************************************)
(* C1: for every token, whatever the interleaving of the submissions that  *)
(* carry it, at most one of them produces a response.                      *)
(***************************************************************************)
C1_AtMostOneResponse ==
    \A i, j \in DOMAIN responses :
        ( /\ responses[i].requestID = responses[j].requestID
          /\ responses[i].outcome = "ok"
          /\ responses[j].outcome = "ok" ) => i = j

(***************************************************************************)
(* C2: in a sequential run a token is usable until it is consumed and not  *)
(* after: right after StorePendingRequest stored a request under T, a      *)
(* lookup of T finds that entry; right after DeletePendingRequest(T) a     *)
(* lookup of T finds nothing; and a /login request that carries a token    *)
(* for which a response was already made is answered "Invalid or expired   *)
(* request".                                                               *)
(***************************************************************************)
C2_Step ==
    \A w \in Workers :
        /\ (pc[w] = "sso_store" /\ pc'[w] = "idle") =>
               LET k == loc'[w].requestID
                   g == LookupEntry(pendingRequests', k, now')
               IN  /\ k \in DOMAIN pendingRequests'
                   /\ g.ok
                   /\ g.session = pendingRequests'[k]
                   /\ g.session.SAMLRequest = loc[w].req
                   /\ g.session.SAMLRequest # NilReq
        /\ (Deleted(w) \/ Called(w, "delete")) =>
               ~LookupEntry(pendingRequests', loc'[w].requestID, now').ok
        /\ (Called(w, "login") /\ loc'[w].requestID \in RespondedTokens) =>
               /\ loc'[w].http = InvalidOrExpired
               /\ pc'[w] = "idle"

C2_UsableUntilConsumed == [][C2_Step]_vars

\* a second submission of a token was turned down after the first one was
\* answered
C2_Witness ==
    \E w \in Workers :
        /\ pc[w] = "idle"
        /\ loc[w].kind = "login"
        /\ loc[w].method = "POST"
        /\ loc[w].http = InvalidOrExpired
        /\ loc[w].requestID \in RespondedTokens

(***************************************************************************)
(* C3: in a sequential run, a submission with a valid token and a name     *)
(* that is no display name of the token's service provider is answered     *)
(* with a client error and leaves the map, and so the token, as it was;    *)
(* a submission with a display name goes on to the response; and no token  *)
(* gets more than one response.                                            *)
(***************************************************************************)
C3_Step ==
    \A w \in Workers :
        Processed(w) =>
            LET sp == loc[w].session.SP
                k == loc[w].requestID
            IN  /\ pc'[w] = "idle" =>
                    /\ loc'[w].http.status = 400
                    /\ loc'[w].http.body \in
                           {"Invalid form data", "No user selected", "Invalid user"}
                    /\ pendingRequests' = pendingRequests
                    /\ responses' = responses
                    /\ LookupEntry(pendingRequests', k, now').ok
                           = LookupEntry(pendingRequests, k, now).ok
                /\ pc'[w] # "idle" =>
                    /\ loc'[w].user \in DisplayNames(sp)
                    /\ Len(responses') = Len(responses) + 1
                    /\ responses'[Len(responses')].requestID = k
                /\ loc'[w].http.body = "Invalid user" =>
                       loc'[w].user \notin DisplayNames(sp)
                /\ loc'[w].user \in FormUsers \ (DisplayNames(sp) \cup {""}) =>
                       loc'[w].http.body = "Invalid user"
                /\ \A t \in RespondedTokens' : Cardinality(ResponsesFor(t)') <= 1

C3_UnknownIdentityKeepsToken == [][C3_Step]_vars

\* a token was refused for an unknown name and later got its response
C3_Witness ==
    \E w \in Workers :
        /\ pc[w] = "idle"
        /\ loc[w].http.body = "Invalid user"
        /\ loc[w].requestID \in RespondedTokens
        /\ loc[w].requestID \notin DOMAIN pendingRequests

(***************************************************************************)
(* C4: an entry whose expiry time has passed is never handed out: a lookup *)
(* of its token finds nothing and /login answers "Invalid or expired       *)
(* request", while the entry is still in the map (nothing swept it).       *)
(***************************************************************************)
C4_Step ==
    \A w \in Workers :
        LET k == loc'[w].requestID
        IN  /\ (Called(w, "login") /\ PastExpiry(k)) =>
                /\ loc'[w].http = InvalidOrExpired
                /\ pc'[w] = "idle"
                /\ k \in DOMAIN pendingRequests'
            /\ (Called(w, "get") /\ PastExpiry(k)) =>
                /\ ~loc'[w].ok
                /\ loc'[w].session = NilSession
                /\ k \in DOMAIN pendingRequests'

C4_ExpiredNotRetrievable == [][C4_Step]_vars

\* a submission was turned down for a token whose entry, with its request,
\* is still in the map and past its expiry
C4_Witness ==
    \E w \in Workers :
        /\ pc[w] = "idle"
        /\ loc[w].kind = "login"
        /\ loc[w].method = "POST"
        /\ loc[w].http = InvalidOrExpired
        /\ PastExpiry(loc[w].requestID)
        /\ ~NoHandle(loc[w].requestID)

(***************************************************************************)
(* C5: a lookup finds nothing in every state where the current time is     *)
(* greater than or equal to the entry's expiry, the instant of equality    *)
(* included.                                                               *)
(***************************************************************************)
C5_Step ==
    \A w \in Workers :
        LET k == loc'[w].requestID
            due == k \in DOMAIN pendingRequests
                       /\ pendingRequests[k].ExpireTime <= now
        IN  /\ (Called(w, "login") /\ due) => loc'[w].http = InvalidOrExpired
            /\ (Called(w, "get") /\ due) => ~loc'[w].ok

C5_NotRetrievableFromExpiryOn == [][C5_Step]_vars

(***************************************************************************)
(* C6: an SSO request that is rejected (parse or validation error, unknown *)
(* service provider) gets a client error and leaves the map as it was;     *)
(* only a request of a registered service provider goes on to be stored.   *)
(***************************************************************************)
C6_Step ==
    \A w \in Workers :
        /\ Called(w, "sso") =>
            /\ pendingRequests' = pendingRequests
            /\ pc'[w] = "idle" =>
                /\ loc'[w].http.status = 400
                /\ loc'[w].http.body \in
                       {"Invalid SAML request", "Unknown service provider"}
            /\ pc'[w] # "idle" =>
                /\ Registered(loc'[w].req.EntityID)
                /\ loc'[w].spConfig \in DOMAIN ServiceProviders
                /\ ServiceProviders[loc'[w].spConfig].EntityID
                       = loc'[w].req.EntityID
        /\ \A k \in DOMAIN pendingRequests' :
               pendingRequests'[k].SAMLRequest # NilReq =>
                   Registered(pendingRequests'[k].SAMLRequest.EntityID)

C6_RejectedSSOCreatesNothing == [][C6_Step]_vars

\* a request of an unknown service provider was rejected while the map held
\* an entry
C6_Witness ==
    \E w \in Workers :
        /\ pc[w] = "idle"
        /\ loc[w].kind = "sso"
        /\ loc[w].http = [status |-> 400, body |-> "Unknown service provider"]
        /\ DOMAIN pendingRequests # {}

(***************************************************************************)
(* C7: /login (GET, POST or any method) with a token that is unknown, has  *)
(* no request handle or is past its expiry is answered "Invalid or expired *)
(* request" and leaves the map exactly as it was.                          *)
(***************************************************************************)
C7_Step ==
    \A w \in Workers :
        LET k == loc'[w].requestID
        IN  Called(w, "login") =>
            /\ (k # "" /\ (k \notin DOMAIN pendingRequests
                              \/ NoHandle(k) \/ PastExpiry(k))) =>
                /\ loc'[w].http = InvalidOrExpired
                /\ pc'[w] = "idle"
                /\ pendingRequests' = pendingRequests
            /\ k = "" =>
                /\ loc'[w].http.status = 400
                /\ pc'[w] = "idle"
                /\ pendingRequests' = pendingRequests

C7_InvalidTokenLeavesStore == [][C7_Step]_vars

\* a submission was turned down for a token whose entry is in the map
\* without a request handle
C7_Witness ==
    \E w \in Workers :
        /\ pc[w] = "idle"
        /\ loc[w].kind = "login"
        /\ loc[w].http = InvalidOrExpired
        /\ NoHandle(loc[w].requestID)

(***************************************************************************)
(* C8: when the response cannot be made or written, processLogin deletes   *)
(* the pending request all the same: the token is not in the map when the  *)
(* handler returns, and a request with a token that is not in the map is   *)
(* answered "Invalid or expired request".                                  *)
(***************************************************************************)
C8_Step ==
    \A w \in Workers :
        LET k == loc'[w].requestID
        IN  /\ (Processed(w) /\ Len(responses') > Len(responses)) =>
                /\ pc'[w] = "delete"
                /\ responses'[Len(responses')].outcome # "ok" =>
                       loc'[w].http.status = 500
            /\ (Deleted(w) /\ loc[w].http.status = 500) =>
                /\ k = loc[w].requestID
                /\ k \notin DOMAIN pendingRequests'
                /\ ~LookupEntry(pendingRequests', k, now').ok
                /\ loc'[w].http.status = 500
            /\ (Called(w, "login") /\ k # "" /\ k \notin DOMAIN pendingRequests) =>
                loc'[w].http = InvalidOrExpired

C8_FailureDoesNotRollBack == [][C8_Step]_vars

\* a submission ended in a server error, its token is gone, and a later
\* submission of the token was turned down
C8_Witness ==
    \E w, v \in Workers :
        /\ pc[w] = "idle"
        /\ loc[w].kind = "login"
        /\ loc[w].http.status = 500
        /\ loc[w].requestID \notin DOMAIN pendingRequests
        /\ pc[v] = "idle"
        /\ loc[v].kind = "login"
        /\ loc[v].requestID = loc[w].requestID
        /\ loc[v].call > loc[w].call
        /\ loc[v].http = InvalidOrExpired

(***************************************************************************)
(* C9: a lookup never changes the map, whatever it finds, so the chooser   *)
(* page can be asked for again and again without consuming the token.      *)
(***************************************************************************)
C9_Step ==
    \A w \in Workers :
        (Called(w, "get") \/ Called(w, "login")) =>
            pendingRequests' = pendingRequests

C9_GetLeavesStore == [][C9_Step]_vars

\* the chooser page was served twice for one token, which is still live
C9_Witness ==
    \E w, v \in Workers :
        /\ w # v
        /\ pc[w] = "idle" /\ pc[v] = "idle"
        /\ loc[w].kind = "login" /\ loc[v].kind = "login"
        /\ loc[w].method = "GET" /\ loc[v].method = "GET"
        /\ loc[w].http.status = 200 /\ loc[v].http.status = 200
        /\ loc[w].requestID = loc[v].requestID
        /\ loc[w].requestID \in DOMAIN pendingRequests
        /\ ~PastExpiry(loc[w].requestID)
        /\ ~NoHandle(loc[w].requestID)

(***************************************************************************)
(* C10: DeletePendingRequest removes the entry of its token, present or    *)
(* not, expired or not, with or without request handle, and nothing else;  *)
(* on an absent token it changes nothing; a second application changes     *)
(* nothing more.                                                           *)
(***************************************************************************)
C10_Step ==
    \A w \in Workers :
        (Deleted(w) \/ Called(w, "delete")) =>
            LET k == loc'[w].requestID
            IN  /\ DOMAIN pendingRequests' = (DOMAIN pendingRequests) \ {k}
                /\ \A j \in DOMAIN pendingRequests' :
                       pendingRequests'[j] = pendingRequests[j]
                /\ k \notin DOMAIN pendingRequests =>
                       pendingRequests' = pendingRequests
                /\ DeleteEntry(pendingRequests', k) = pendingRequests'

C10_ConsumeIdempotent == [][C10_Step]_vars

\* an entry stored without request handle was removed by a later delete
C10_Witness ==
    \E w, v \in Workers :
        /\ pc[w] = "idle" /\ pc[v] = "idle"
        /\ loc[w].kind = "store"
        /\ loc[v].kind = "delete"
        /\ loc[v].requestID = loc[w].requestID
        /\ loc[v].call > loc[w].call
        /\ loc[v].requestID \notin DOMAIN pendingRequests

(***************************************************************************)
(* C11: reader/writer exclusion on the store: in every reachable state, if *)
(* a StorePendingRequest or a DeletePendingRequest is inside its critical  *)
(* section then no other store operation is inside its own; several        *)
(* GetPendingRequest calls can be inside theirs together.                  *)
(***************************************************************************)
\* worker w is between the return of Lock / RLock and its deferred release
InCS(w) == pc[w] \in {"cs", "unlock", "runlock"}

C11_ReaderWriterExclusion ==
    \A w \in Workers :
        (InCS(w) /\ Writes(loc[w].kind)) =>
            \A v \in Workers \ {w} : ~InCS(v)

\* two lookups inside their critical sections at the same time
C11_Witness ==
    \E w, v \in Workers :
        /\ w # v
        /\ pc[w] = "cs" /\ loc[w].kind = "get"
        /\ pc[v] = "cs" /\ loc[v].kind = "get"

(***************************************************************************)
(* C12: whatever the interleaving of concurrent StorePendingRequest calls  *)
(* (with pairwise distinct tokens), GetPendingRequest calls and            *)
(* DeletePendingRequest calls, the map changes only by the body of a store *)
(* (which adds exactly its token, with the complete entry) and by the body *)
(* of a delete (which removes exactly its token), so that it holds exactly *)
(* the tokens stored and not deleted since; and every lookup returns       *)
(* either nothing or the complete entry as its store wrote it, never an    *)
(* entry with only some fields set.                                        *)
(***************************************************************************)
\* e is an entry as StorePendingRequest writes it under token k
CompleteEntry(e, k) ==
    /\ e.ID = k
    /\ e.SAMLRequest # NilReq
    /\ e.SP \in DOMAIN ServiceProviders
    /\ ServiceProviders[e.SP].EntityID = e.SAMLRequest.EntityID
    /\ e.ExpireTime >= e.CreateTime + TenMinutes

C12_Step ==
    /\ \A w \in Workers :
        LET k == loc[w].requestID
        IN  /\ (pc[w] = "idle" /\ pc'[w] = "lock" /\ loc'[w].kind = "store") =>
                /\ loc'[w].requestID \notin DOMAIN pendingRequests
                /\ \A v \in Workers \ {w} :
                       loc[v].requestID # loc'[w].requestID
            /\ (pc[w] = "cs" /\ pc'[w] = "unlock" /\ loc[w].kind = "store") =>
                /\ DOMAIN pendingRequests' = (DOMAIN pendingRequests) \cup {k}
                /\ pendingRequests'[k] =
                       [ID |-> k, SP |-> loc[w].spConfig, CreateTime |-> now,
                        ExpireTime |-> now' + TenMinutes,
                        SAMLRequest |-> loc[w].req]
                /\ \A j \in (DOMAIN pendingRequests) \ {k} :
                       pendingRequests'[j] = pendingRequests[j]
            /\ (pc[w] = "cs" /\ pc'[w] = "unlock" /\ loc[w].kind = "delete") =>
                /\ DOMAIN pendingRequests' = (DOMAIN pendingRequests) \ {k}
                /\ \A j \in DOMAIN pendingRequests' :
                       pendingRequests'[j] = pendingRequests[j]
            /\ (pc[w] = "cs" /\ pc'[w] = "runlock") =>
                /\ pendingRequests' = pendingRequests
                /\ \/ ~loc'[w].ok /\ loc'[w].session = NilSession
                   \/ /\ loc'[w].ok
                      /\ k \in DOMAIN pendingRequests
                      /\ loc'[w].session = pendingRequests[k]
                      /\ CompleteEntry(loc'[w].session, k)
    /\ (\A w \in Workers : ~(pc[w] = "cs" /\ pc'[w] = "unlock")) =>
           pendingRequests' = pendingRequests
    /\ \A k \in DOMAIN pendingRequests' :
           CompleteEntry(pendingRequests'[k], k)
    /\ \A k, j \in DOMAIN pendingRequests' :
           pendingRequests'[k].SAMLRequest = pendingRequests'[j].SAMLRequest
               => k = j

C12_ConsistentUnderInterleaving == [][C12_Step]_vars

\* a lookup has returned the entry of a token while a delete of the same
\* token waits for the lock
C12_Witness ==
    \E w, v \in Workers :
        /\ pc[w] = "runlock" /\ loc[w].ok
        /\ pc[v] = "lock" /\ loc[v].kind = "delete"
        /\ loc[v].requestID = loc[w].requestID
        /\ loc[w].session = pendingRequests[loc[w].requestID]

(***************************************************************************)
(* C13: Consumed and Expired are terminal: once the entry of a token is    *)
(* past its expiry, or the token got its response and was deleted, no      *)
(* later step (store, lookup or delete by any caller) makes a lookup of    *)
(* that token return an entry again.                                       *)
(***************************************************************************)
\* token k got its response and its entry was removed
Consumed(k) == k \in RespondedTokens /\ k \notin DOMAIN pendingRequests

C13_Step ==
    \A k \in (DOMAIN pendingRequests) \cup RespondedTokens :
        (PastExpiry(k) \/ Consumed(k)) =>
            ~LookupEntry(pendingRequests', k, now').ok

C13_TerminalStaysTerminal == [][C13_Step]_vars

(***************************************************************************)
(* C14: two SSO requests that are both accepted are redirected with        *)
(* distinct tokens, also when they are served concurrently, so that        *)
(* StorePendingRequest never replaces an entry that is still in the map.   *)
(***************************************************************************)
C14_Step ==
    \A w \in Workers :
        (pc[w] = "sso_store" /\ pc'[w] = "idle") =>
            /\ loc'[w].requestID \notin DOMAIN pendingRequests
            /\ \A v \in Workers \ {w} :
                   (loc[v].kind = "sso" /\ loc[v].http.status = 302) =>
                       loc[v].requestID # loc'[w].requestID

C14_DistinctTokens == [][C14_Step]_vars

(***************************************************************************)
(* C15: an accepted SSO request adds exactly one entry to the map: its     *)
(* token was not a key before, the entry under it is bound to the service  *)
(* provider looked up for the request and to the request itself, and every *)
(* other entry is unchanged; and the login page served for a token         *)
(* presents exactly the user list of the service provider of its entry.    *)
(***************************************************************************)
C15_Step ==
    \A w \in Workers :
        /\ (pc[w] = "sso_store" /\ pc'[w] = "idle") =>
            LET k == loc'[w].requestID
            IN  /\ loc'[w].http = [status |-> 302,
                                   body |-> "/login?request_id=" \o k]
                /\ k \notin DOMAIN pendingRequests
                /\ DOMAIN pendingRequests' = (DOMAIN pendingRequests) \cup {k}
                /\ Cardinality(DOMAIN pendingRequests')
                       = Cardinality(DOMAIN pendingRequests) + 1
                /\ pendingRequests'[k].ID = k
                /\ pendingRequests'[k].SAMLRequest = loc[w].req
                /\ pendingRequests'[k].SP = loc[w].spConfig
                /\ loc[w].spConfig = GetServiceProviderConfig(loc[w].req.EntityID)
                /\ \A j \in (DOMAIN pendingRequests) \ {k} :
                       pendingRequests'[j] = pendingRequests[j]
                /\ LoginPageData(k, pendingRequests'[k]).Users
                       = ServiceProviders[loc[w].spConfig].Users
        /\ (Called(w, "login") /\ loc'[w].method = "GET"
                /\ loc'[w].http.status = 200) =>
            LET k == loc'[w].requestID
            IN  /\ k \in DOMAIN pendingRequests
                /\ loc'[w].page.RequestID = k
                /\ loc'[w].page.Users
                       = ServiceProviders[pendingRequests[k].SP].Users
                /\ ServiceProviders[pendingRequests[k].SP].EntityID
                       = pendingRequests[k].SAMLRequest.EntityID

C15_BeginFlowAddsOneEntry == [][C15_Step]_vars

(***************************************************************************)
(* C16: when processLogin reaches the response for token T and name n, the *)
(* session it hands over has as NameID the NameID of the user named n of   *)
(* the service provider of T's entry, as format GetNameIDFormat of that    *)
(* service provider's name_id_format, as attributes a result of            *)
(* buildCustomAttributes for that user, and it goes with the SAML request  *)
(* of the entry GetPendingRequest returned for T, which is the request of  *)
(* no entry stored under another token.                                    *)
(***************************************************************************)
C16_Step ==
    \A w \in Workers :
        /\ (Called(w, "login") /\ pc'[w] = "process") =>
            /\ loc'[w].requestID \in DOMAIN pendingRequests
            /\ loc'[w].session = pendingRequests[loc'[w].requestID]
        /\ (Processed(w) /\ pc'[w] = "delete") =>
            LET k == loc[w].requestID
                entry == loc[w].session
                sp == ServiceProviders[entry.SP]
                R == responses'[Len(responses')]
            IN  /\ Len(responses') = Len(responses) + 1
                /\ R.requestID = k
                /\ \E i \in DOMAIN sp.Users :
                    /\ sp.Users[i].Name = loc'[w].user
                    /\ \A j \in 1..(i - 1) : sp.Users[j].Name # loc'[w].user
                    /\ R.session.NameID = sp.Users[i].NameID
                    /\ R.session.CustomAttributes
                           \in buildCustomAttributes(entry.SP, i)
                /\ R.session.NameIDFormat = GetNameIDFormat(sp.NameIDFormat)
                /\ R.req = entry.SAMLRequest
                /\ R.req # NilReq
                /\ \A j \in (DOMAIN pendingRequests) \ {k} :
                       pendingRequests[j].SAMLRequest # R.req

C16_ClaimSetFromEntry == [][C16_Step]_vars

\* Ann's response was made, with her two attributes, while the entry of
\* another token with another request was in the map
C16_Witness ==
    \E i \in DOMAIN responses :
        /\ responses[i].session.UserName = "Ann"
        /\ responses[i].session.NameID = "ann@example.com"
        /\ responses[i].session.NameIDFormat = PersistentNameIDFormat
        /\ Len(responses[i].session.CustomAttributes) = 2
        /\ \E j \in DOMAIN pendingRequests :
            /\ j # responses[i].requestID
            /\ pendingRequests[j].SAMLRequest # NilReq
            /\ pendingRequests[j].SAMLRequest # responses[i].req

(***************************************************************************)
(* C17: every entry in the map has a fixed lifetime: its ExpireTime equals *)
(* its CreateTime plus exactly ten minutes.                                *)
(***************************************************************************)
C17_FixedLifetime ==
    \A k \in DOMAIN pendingRequests :
        pendingRequests[k].ExpireTime
            = pendingRequests[k].CreateTime + TenMinutes

(***************************************************************************)
(* C18: NewServiceProviderProvider fails, returning no provider and an     *)
(* error that names the offending element, whenever two elements of the    *)
(* configuration have the same EntityID.                                   *)
(***************************************************************************)
HasDuplicate(sps) ==
    \E i, j \in DOMAIN sps : i < j /\ sps[i].EntityID = sps[j].EntityID

\* the error message names the EntityID id
ErrorNames(err, id) ==
    \E reason \in {"failed to read metadata file", "failed to parse metadata",
                   "SP must have either acs_url or metadata_file"} :
        err = "failed to create SP entry for " \o id \o ": " \o reason

C18_DuplicateRejected ==
    (spProvider.state # "none" /\ HasDuplicate(cfgSps)) =>
        /\ spProvider.state = "failed"
        /\ spProvider.sps = NoEntries
        /\ \E i, j \in DOMAIN cfgSps :
            /\ i < j
            /\ cfgSps[i].EntityID = cfgSps[j].EntityID
            /\ ErrorNames(spProvider.err, cfgSps[j].EntityID)

(***************************************************************************)
(* C19: NewServiceProviderProvider fails, returning no provider and an     *)
(* error that names the element's EntityID, whenever an element has        *)
(* neither acs_url nor metadata_file, wherever it stands in the list: the  *)
(* error names the first element that cannot be made an entry, and when    *)
(* that is an element with neither, the error says so.                     *)
(***************************************************************************)
Neither(sp) == sp.ACSURL = "" /\ sp.MetadataFile = ""

\* an entry can be made of sp
Creatable(sp) ==
    \/ sp.MetadataFile # "" /\ MetadataFiles[sp.MetadataFile].state = "ok"
    \/ sp.MetadataFile = "" /\ sp.ACSURL # ""

Configured(sps, id, c) ==
    IF \E i \in DOMAIN sps : sps[i].EntityID = id
    THEN /\ c \in DOMAIN sps
         /\ sps[c].EntityID = id
         /\ \A j \in DOMAIN sps : sps[j].EntityID = id => j <= c
    ELSE c = NilSP

C20_ResolveAfterConstruction ==
    /\ spProvider.state = "ok" =>
           \A id \in RegistryIDs :
               Configured(cfgSps, id, LookupConfig(spProvider, id))
    /\ resolved.called =>
           Configured(cfgSps, resolved.entityID, resolved.config)

\* a lookup found the element that takes its metadata from a file, on a
\* provider built from two elements with different identifiers
C20_Witness ==
    /\ resolved.called
    /\ resolved.config # NilSP
    /\ Len(cfgSps) = 2
    /\ cfgSps[1].EntityID # cfgSps[2].EntityID
    /\ cfgSps[resolved.config].MetadataFile = "good.xml"

(***************************************************************************)
(* C21: GetAllServiceProviders returns every configured service provider   *)
(* exactly once, so the slice is as long as the configuration, and as an   *)
(* ordered sequence: two calls on the same provider return the same slice. *)
(***************************************************************************)
C21_AllDescriptorsOrdered ==
    /\ \A n \in DOMAIN allSPs :
        /\ Len(allSPs[n]) = Len(cfgSps)
        /\ \A c \in DOMAIN cfgSps :
               Cardinality({ i \in DOMAIN allSPs[n] : allSPs[n][i] = c }) = 1
    /\ \A n, m \in DOMAIN allSPs : allSPs[n] = allSPs[m]

(***************************************************************************)
(* C22: GetUserByName returns the first user of the service provider's     *)
(* ordered Users whose Name equals the name asked for, and nil when no     *)
(* user of that service provider has that Name.                            *)
(***************************************************************************)
C22_FirstMatchOrNotFound ==
    frame.fn = "GetUserByName" =>
        LET users == frame.args[1]
            name == frame.args[2]
        IN  IF \E i \in DOMAIN users : users[i].Name = name
            THEN /\ frame.ret \in DOMAIN users
                 /\ users[frame.ret].Name = name
                 /\ \A j \in 1..(frame.ret - 1) : users[j].Name # name
            ELSE frame.ret = 0

\* the second of three users was returned, the third having the same name
\* and another NameID
C22_Witness ==
    /\ frame.fn = "GetUserByName"
    /\ Len(frame.args[1]) = 3
    /\ frame.ret = 2
    /\ frame.args[1][3].Name = frame.args[2]
    /\ frame.args[1][3].NameID # frame.args[1][2].NameID

(***************************************************************************)
(* C23: for each of the four canonical keywords k (email, persistent,      *)
(* transient, unspecified), GetNameIDFormatString(GetNameIDFormat(k)) is   *)
(* k, and the four keywords have four pairwise distinct URIs.              *)
(***************************************************************************)
CanonicalKeywords == {"email", "persistent", "transient", "unspecified"}

C23_FormatRoundTrip ==
    /\ \A k \in CanonicalKeywords :
        /\ GetNameIDFormatString(GetNameIDFormat(k)) = {k}
        /\ (frame.fn = "GetNameIDFormatString"
                /\ frame.args[1] = GetNameIDFormat(k)) => frame.ret = k
    /\ \A k, l \in CanonicalKeywords :
           GetNameIDFormat(k) = GetNameIDFormat(l) => k = l
    /\ { GetNameIDFormat(k) : k \in CanonicalKeywords } =
           {EmailAddressNameIDFormat, PersistentNameIDFormat,
            TransientNameIDFormat, UnspecifiedNameIDFormat}

\* the URI of transient was turned back into its keyword
C23_Witness ==
    /\ frame.fn = "GetNameIDFormatString"
    /\ frame.args[1] = GetNameIDFormat("transient")
    /\ frame.ret = "transient"

(***************************************************************************)
(* C24: GetNameIDFormat maps every keyword outside the four canonical      *)
(* ones, the empty string included, to the URI it gives for "email"; it    *)
(* has no error result, and what it returns is always one of the four      *)
(* URIs.                                                                   *)
(***************************************************************************)
C24_UnknownKeywordIsEmail ==
    frame.fn = "GetNameIDFormat" =>
        /\ frame.args[1] \notin CanonicalKeywords =>
            /\ frame.ret = GetNameIDFormat("email")
            /\ frame.ret = EmailAddressNameIDFormat
        /\ frame.ret \in {EmailAddressNameIDFormat, PersistentNameIDFormat,
                          TransientNameIDFormat, UnspecifiedNameIDFormat}

\* the empty keyword was resolved
C24_Witness ==
    /\ frame.fn = "GetNameIDFormat"
    /\ frame.args[1] = ""
    /\ frame.ret = EmailAddressNameIDFormat

C25_ValuesFollowExceptSpaced ==
    frame.fn = "attributeValues" =>
        LET value == frame.args[1]
            values == frame.ret
        IN  /\ (value.kind = "list" /\ Len(value.items) > 0) =>
                /\ Len(values) = Len(value.items)
                /\ \A i \in 1..Len(values) :
                       values[i].Value = castToString(value.items[i])
            /\ (value.kind \in {"bool", "int"}
                    \/ (value.kind = "string" /\ Len(value.fields) <= 1)) =>
                /\ Len(values) = 1
                /\ values[1].Value = castToString(value)
            /\ Len(values) >= 1

(***************************************************************************)
(* C26: buildCustomAttributes(user) returns exactly one attribute for each *)
(* key of user.Attributes, named by that key and carrying the values of    *)
(* that key, so as many attributes as keys; a user without attributes and  *)
(* the nil user give the empty slice.                                      *)
(***************************************************************************)
C26_OneClaimPerAttribute ==
    frame.fn = "buildCustomAttributes" =>
        LET user == frame.args[1]
            attrs == frame.ret
        IN  IF user = NilUser \/ DOMAIN user.Attributes = {}
            THEN attrs = << >>
            ELSE /\ Len(attrs) = Cardinality(DOMAIN user.Attributes)
                 /\ \A name \in DOMAIN user.Attributes :
                        Cardinality({ i \in 1..Len(attrs) : attrs[i].Name = name }) = 1
                 /\ \A i \in 1..Len(attrs) :
                        /\ attrs[i].Name \in DOMAIN user.Attributes
                        /\ attrs[i].FriendlyName = attrs[i].Name
                        /\ attrs[i].Values =
                               attributeValues(user.Attributes[attrs[i].Name])

\* a user with three attributes gave three attributes
C26_Witness ==
    /\ frame.fn = "buildCustomAttributes"
    /\ frame.args[1] # NilUser
    /\ DOMAIN frame.args[1].Attributes = AttributeNames
    /\ Len(frame.ret) = 3

(***************************************************************************)
(* C27: no SSO request is answered from an existing session (GetSession    *)
(* returns nil): every accepted SSO request stores a pending request under *)
(* the token it generated and redirects to the login page, and no step of  *)
(* handleSSO writes a response.  A response is written only by             *)
(* processLogin, for a POST to /login that carried the token and for which *)
(* GetPendingRequest returned the entry; an entry with a request handle is *)
(* put in the map only by handleSSO under the token it generated; and the  *)
(* request handle in a response is that of an SSO call made before.        *)
(***************************************************************************)
C27_Step ==
    /\ \A w \in Workers : GetSession(loc[w].req) = NilSamlSession
    /\ \A w \in Workers :
        /\ Called(w, "sso") => responses' = responses
        /\ (pc[w] = "sso_store" /\ pc'[w] = "idle") =>
            LET k == loc'[w].requestID
            IN  /\ responses' = responses
                /\ k \in DOMAIN pendingRequests'
                /\ pendingRequests'[k].SAMLRequest = loc[w].req
                /\ loc'[w].http = [status |-> 302, body |-> "/login?request_id=" \o k]
        /\ (pc[w] = "idle" /\ pc'[w] = "process") =>
            /\ loc'[w].kind = "login"
            /\ loc'[w].method = "POST"
            /\ LookupEntry(pendingRequests, loc'[w].requestID, now) =
                   [session |-> loc'[w].session, ok |-> TRUE]
    /\ responses' # responses =>
        \E w \in Workers :
            /\ Processed(w)
            /\ loc[w].kind = "login"
            /\ loc[w].method = "POST"
            /\ loc[w].ok
            /\ Len(responses') = Len(responses) + 1
            /\ SubSeq(responses', 1, Len(responses)) = responses
            /\ responses'[Len(responses')].requestID = loc[w].requestID
            /\ responses'[Len(responses')].req = loc[w].session.SAMLRequest
    /\ \A k \in DOMAIN pendingRequests' :
        ( /\ pendingRequests'[k].SAMLRequest # NilReq
          /\ (k \notin DOMAIN pendingRequests
                 \/ pendingRequests'[k] # pendingRequests[k]) ) =>
            \E w \in Workers :
                /\ pc[w] = "sso_store" /\ pc'[w] = "idle"
                /\ loc'[w].kind = "sso"
                /\ loc'[w].requestID = k
    /\ \A i \in DOMAIN responses' :
        /\ responses'[i].req # NilReq
        /\ responses'[i].req.id \in 1..(nCalls' - 1)
        /\ responses'[i].requestID \notin TestIDs \cup {""}

C27_ResponseOnlyAfterChooser == [][C27_Step]_vars

\* a flow of two calls, the SSO request and the POST of the choice, ended in
\* a response for the token of the first
C27_Witness ==
    /\ nCalls = 2
    /\ Len(responses) = 1
    /\ responses[1].req.id = 1
    /\ Len(responses[1].requestID) = 16
    /\ \E w \in Workers : loc[w].call = 2 /\ loc[w].requestID = responses[1].requestID

(***************************************************************************)
(* C28: an entry stored with a nil request handle is in the map (it counts *)
(* in the number of entries, and DeletePendingRequest removes it) but no   *)
(* lookup returns it: GetPendingRequest gives (nil, false) and leaves the  *)
(* map alone, and /login with its token is answered "Invalid or expired    *)
(* request" whatever the method, GET, POST or other, since the token is    *)
(* looked up before the method is examined.                                *)
(***************************************************************************)
C28_Step ==
    /\ \A k \in DOMAIN pendingRequests :
           NoHandle(k) => ~LookupEntry(pendingRequests, k, now).ok
    /\ \A w \in Workers :
        LET k == loc'[w].requestID
        IN  /\ Called(w, "store") =>
                /\ k \in DOMAIN pendingRequests'
                /\ pendingRequests'[k].SAMLRequest = NilReq
                /\ Cardinality(DOMAIN pendingRequests') =
                       Cardinality((DOMAIN pendingRequests) \cup {k})
            /\ (Called(w, "get") /\ NoHandle(k)) =>
                /\ ~loc'[w].ok
                /\ loc'[w].session = NilSession
                /\ pendingRequests' = pendingRequests
            /\ (Called(w, "login") /\ NoHandle(k)) =>
                /\ loc'[w].method \in Methods
                /\ loc'[w].http = InvalidOrExpired
                /\ loc'[w].page = NoPage
                /\ pc'[w] = "idle"
                /\ responses' = responses
                /\ pendingRequests' = pendingRequests
            /\ (Called(w, "delete") /\ NoHandle(k)) =>
                /\ k \notin DOMAIN pendingRequests'
                /\ Cardinality(DOMAIN pendingRequests') =
                       Cardinality(DOMAIN pendingRequests) - 1

C28_NilHandleNeverRetrievable == [][C28_Step]_vars

\* a PUT to /login with the token of an entry without request handle was
\* answered "Invalid or expired request", not "Method not allowed", and the
\* entry is still in the map
C28_Witness ==
    \E w \in Workers :
        /\ loc[w].kind = "login"
        /\ loc[w].method = "PUT"
        /\ loc[w].http = InvalidOrExpired
        /\ NoHandle(loc[w].requestID)
        /\ Cardinality(DOMAIN pendingRequests) >= 1

(***************************************************************************)
(* C29: for every length n >= 0 and every value of randState, randomHex(n) *)
(* returns a string of exactly n characters, each one of 0-9 and a-f: the  *)
(* value pseudoRand returns, the new state shifted right by 33 bits, is    *)
(* never negative, so that its remainder by 16 is an index in 0..15.       *)
(***************************************************************************)
HexDigits == { hexChars[i] : i \in 1..16 }

MaxInt31 == 2147483647

C29_HexOfLength ==
    /\ frame.fn = "pseudoRand" =>
        /\ frame.ret.value >= 0
        /\ frame.ret.value <= MaxInt31
        /\ frame.ret.value % 16 \in 0..15
        /\ frame.ret.state = LCGNext(frame.args[1])
    /\ frame.fn = "randomHex" =>
        /\ Len(frame.ret.str) = frame.args[2]
        /\ \A i \in 1..Len(frame.ret.str) :
               SubSeq(frame.ret.str, i, i) \in HexDigits

\* randomHex(16) was called with the top byte of randState at 0xFF
C29_Witness ==
    /\ frame.fn = "randomHex"
    /\ frame.args[1][8] = 255
    /\ frame.args[2] = 16
    /\ Len(frame.ret.str) = 16

(***************************************************************************)
(* C30: on the success path of processLogin the pending request is deleted *)
(* before the request handle and the session reach                         *)
(* createAndSendResponse: in no reachable state is there a response for a  *)
(* token that GetPendingRequest would still return.                        *)
(***************************************************************************)
C30_ConsumedBeforeSigner ==
    \A i \in DOMAIN responses :
        ~LookupEntry(pendingRequests, responses[i].requestID, now).ok

(***************************************************************************)
(* C31: users are kept apart by service provider: processLogin writes a    *)
(* response only when the name submitted is the Name of a user of the      *)
(* service provider stored with the pending request; a name that only      *)
(* another service provider has is answered "Invalid user"; and the user   *)
(* in every response is a user of the service provider whose request the   *)
(* response answers.                                                       *)
(***************************************************************************)
C31_Step ==
    /\ \A k \in DOMAIN pendingRequests' :
           pendingRequests'[k].SAMLRequest # NilReq =>
               ServiceProviders[pendingRequests'[k].SP].EntityID =
                   pendingRequests'[k].SAMLRequest.EntityID
    /\ \A w \in Workers :
        Processed(w) =>
            LET sp == loc[w].session.SP
                name == loc'[w].user
                others == UNION { DisplayNames(o) : o \in (DOMAIN ServiceProviders) \ {sp} }
            IN  /\ ServiceProviders[sp].EntityID = loc[w].session.SAMLRequest.EntityID
                /\ responses' # responses =>
                    /\ name \in DisplayNames(sp)
                    /\ responses'[Len(responses')].session.UserName = name
                    /\ \E j \in DOMAIN ServiceProviders[sp].Users :
                        /\ ServiceProviders[sp].Users[j].Name = name
                        /\ ServiceProviders[sp].Users[j].NameID =
                               responses'[Len(responses')].session.NameID
                /\ (name # "" /\ name \in others \ DisplayNames(sp)) =>
                    /\ loc'[w].http = [status |-> 400, body |-> "Invalid user"]
                    /\ responses' = responses
    /\ \A i \in DOMAIN responses' :
        \E sp \in DOMAIN ServiceProviders :
            /\ ServiceProviders[sp].EntityID = responses'[i].req.EntityID
            /\ \E j \in DOMAIN ServiceProviders[sp].Users :
                /\ ServiceProviders[sp].Users[j].Name = responses'[i].session.UserName
                /\ ServiceProviders[sp].Users[j].NameID = responses'[i].session.NameID

C31_IdentitiesPerProvider == [][C31_Step]_vars

\* Cy, a user of sp-2 only, was submitted with a token of sp-1 and turned
\* down, and the token is still in the map
C31_Witness ==
    \E w \in Workers :
        /\ pc[w] = "idle"
        /\ loc[w].kind = "login"
        /\ loc[w].user = "Cy"
        /\ loc[w].http.body = "Invalid user"
        /\ loc[w].requestID \in DOMAIN pendingRequests
        /\ ServiceProviders[pendingRequests[loc[w].requestID].SP].EntityID = "sp-1"

(***************************************************************************)
(* C32: every user the login page lists can be selected: for a valid token *)
(* and every user of its service provider, a submission of that user's     *)
(* Name is answered with a response whose NameID is that user's NameID,    *)
(* also when the Name is empty or is the Name of an earlier user of the    *)
(* list.                                                                   *)
(***************************************************************************)
C32_Step ==
    \A w \in Workers :
        (Processed(w) /\ loc'[w].http.body # "Invalid form data") =>
            LET users == ServiceProviders[loc[w].session.SP].Users
            IN  \A j \in DOMAIN users :
                    users[j].Name = loc'[w].user =>
                        /\ Len(responses') = Len(responses) + 1
                        /\ responses'[Len(responses')].session.NameID = users[j].NameID

C32_EveryListedUserSelectable == [][C32_Step]_vars

(***************************************************************************)
(* C33: no response is made for a token at or after its expiry: whenever   *)
(* processLogin reaches createAndSendResponse for an entry, the time of    *)
(* that moment is before the ExpireTime of the entry, also when the clock  *)
(* advances between the GetPendingRequest of handleLogin and that moment.  *)
(***************************************************************************)
C33_Step ==
    \A w \in Workers :
        (Processed(w) /\ responses' # responses) =>
            now < loc[w].session.ExpireTime

C33_NoResponseAfterExpiry == [][C33_Step]_vars

(***************************************************************************)
(* C34: an entry leaves the map only by DeletePendingRequest of its own    *)
(* token, which processLogin reaches only after it has made the response   *)
(* (or which a caller of the store applies directly): no                   *)
(* StorePendingRequest, GetPendingRequest, refused submission or advance   *)
(* of the clock removes an entry or changes the entry of another token, so *)
(* an entry past its expiry stays in the map until it is deleted and the   *)
(* number of entries goes down only by such a delete.                      *)
(***************************************************************************)
\* the step is a DeletePendingRequest of token k
DeletesToken(k) ==
    \E w \in Workers :
        \/ Deleted(w) /\ loc[w].requestID = k
        \/ Called(w, "delete") /\ loc'[w].requestID = k

\* the step is a StorePendingRequest under token k
StoresToken(k) ==
    \E w \in Workers :
        \/ pc[w] = "sso_store" /\ pc'[w] = "idle" /\ loc'[w].requestID = k
        \/ Called(w, "store") /\ loc'[w].requestID = k

C34_Step ==
    /\ \A k \in DOMAIN pendingRequests :
        /\ k \notin DOMAIN pendingRequests' => DeletesToken(k)
        /\ (k \in DOMAIN pendingRequests' /\ pendingRequests'[k] # pendingRequests[k])
               => StoresToken(k)
        /\ (PastExpiry(k) /\ ~DeletesToken(k) /\ ~StoresToken(k)) =>
               /\ k \in DOMAIN pendingRequests'
               /\ pendingRequests'[k] = pendingRequests[k]
    /\ Cardinality(DOMAIN pendingRequests') < Cardinality(DOMAIN pendingRequests) =>
        /\ Cardinality(DOMAIN pendingRequests') = Cardinality(DOMAIN pendingRequests) - 1
        /\ \E k \in DOMAIN pendingRequests : DeletesToken(k)
    /\ (now' # now /\ pc' = pc /\ nCalls' = nCalls) =>
           pendingRequests' = pendingRequests
    /\ \A w \in Workers :
        /\ (pc[w] # "delete" /\ pc'[w] = "delete") =>
               (Processed(w) /\ Len(responses') = Len(responses) + 1)
        /\ (Processed(w) /\ pc'[w] = "idle") => pendingRequests' = pendingRequests
        /\ (Called(w, "get") \/ Called(w, "login") \/ Called(w, "sso")) =>
               pendingRequests' = pendingRequests

C34_OnlyConsumeRemoves == [][C34_Step]_vars

\* an entry past its expiry is still in the map next to an entry that was
\* stored after that expiry
C34_Witness ==
    \E k, j \in DOMAIN pendingRequests :
        /\ k # j
        /\ PastExpiry(k)
        /\ pendingRequests[j].CreateTime > pendingRequests[k].ExpireTime

(***************************************************************************)
(* C35: the store does not deadlock: a worker holds sp.mu only between its *)
(* Lock / RLock and its deferred Unlock / RUnlock, a worker that has       *)
(* returned holds nothing, and under fair scheduling every                 *)
(* StorePendingRequest, GetPendingRequest and DeletePendingRequest that    *)
(* was entered returns, whatever the other workers do.                     *)
(***************************************************************************)
HoldsOnlyInside ==
    \A w \in Workers :
        /\ mu.writer = w => pc[w] \in {"cs", "unlock"}
        /\ w \in mu.readers => pc[w] \in {"cs", "runlock"}
        /\ pc[w] \in {"cs", "unlock", "runlock"} => (mu.writer = w \/ w \in mu.readers)

C35_StoreNeverDeadlocks ==
    /\ []HoldsOnlyInside
    /\ \A w \in Workers : (pc[w] # "idle") ~> (pc[w] = "idle")

\* a worker waits in Lock while another holds the mutex for its write
C35_Witness ==
    \E w, v \in Workers :
        /\ w # v
        /\ pc[w] = "lock"
        /\ mu.writer = v
        /\ pc[v] = "cs"
        /\ loc[v].kind = "delete"

====
